---- MODULE Spec2Model ----
(***************************************************************************)
(* Model of the execution engine of P_Excel_Desktop.                       *)
(*                                                                         *)
(* Part 1: WorkerPool (src/src/main/workerPool.js).  The pool runs on the  *)
(* Node.js event loop: a handler runs to completion, `await` suspends an   *)
(* async function into the microtask queue, and worker messages, worker    *)
(* events and timers are macrotasks that run only when the microtask       *)
(* queue is empty.                                                         *)
(*                                                                         *)
(* Part 2: CacheWorker (src/src/workers/cacheWorker.js): the index, the    *)
(* files of the data directory and the running size total, with one        *)
(* action per message of the worker.                                       *)
(*                                                                         *)
(* Part 3: the row operations, as DataProcessorWorker computes them on a   *)
(* whole dataset (src/src/workers/cacheWorker.js) and as StreamProcessor   *)
(* computes them on a stream of chunks (src/src/main/streamProcessor.js).  *)
(***************************************************************************)
EXTENDS Integers, Sequences, FiniteSets, TLC

\* ---- bounds of the model ------------------------------------------------
MaxTasks == 5          \* executeTask calls explored by the scheduling scenarios
MaxLifecycleTasks == 3 \* executeTask calls explored by the life-cycle scenarios
MaxWorkerId == 4       \* worker ids handed out by createWorker
MaxCrashes == 2        \* worker threads that fail on their own
maxWorkers == 2        \* options.maxWorkers of the pool under test
MaxTime == 2           \* the clock of the cache scenarios runs from 0 to MaxTime
maxCacheSize == 10     \* workerData.maxCacheSize of the cache under test
MaxFilterRows == 3     \* rows of the datasets that are filtered
MaxSortRows == 3       \* rows of the datasets that are sorted
chunkSize == 2         \* options.chunkSize of the stream processor under test
MaxGroupRows == 3      \* rows of the datasets that are grouped
MaxStreamRows == chunkSize + 1 \* rows of the files that are streamed: more than a chunk
MaxJobs == 2           \* processLargeFile calls on one StreamProcessor

\* ---- program constants --------------------------------------------------
minWorkers == 1

WorkerTypes == {"processor", "cache"}
Priorities == {"high", "normal", "low"}
TaskIds == 1..MaxTasks
WorkerIds == 1..MaxWorkerId
NoTask == 0
NoWorker == 0

\* ---- the data of the row operations --------------------------------------
\* cell values: the numbers 1 and 2, a text, and null (an empty cell)
Cells == {"1", "2", "N/A", "null"}

NumberCells == {"1", "2"}

\* cell values whose order as numbers and as texts differ: the numbers 9
\* and 10, and a text that begins with a digit
MixedCells == Cells \cup {"9", "10", "5kg"}

Columns == {"a", "b"}

\* rows carry their position in the dataset as `id`
Datasets(cellsA, cellsB, max) ==
    UNION {{[i \in 1..n |-> [a |-> f[i][1], b |-> f[i][2], id |-> i]] :
              f \in [1..n -> cellsA \X cellsB]} : n \in 0..max}

Operators == {"equals", "not_equals", "greater_than"}

Conditions ==
    {[column |-> "a", operator |-> o, value |-> v] : o \in Operators, v \in NumberCells}

\* condition lists of a filter operation
ConditionLists == {<<>>} \cup {<<c>> : c \in Conditions}

\* sortColumns of a sort operation
SortColumns ==
    {<<[column |-> "a", direction |-> "asc"]>>,
     <<[column |-> "a", direction |-> "desc"]>>,
     <<[column |-> "a", direction |-> "asc"], [column |-> "b", direction |-> "desc"]>>}

\* cell values of the grouped datasets: texts with and without the character
\* '|', the empty text and null in column a; numbers and a text in column b
GroupCells == {"x", "x|1", "", "null"}

ValueCells == {"1", "2", "1|1"}

\* groupBy of an aggregate operation, columns of a remove-duplicates operation
GroupBys == {<<>>, <<"a">>, <<"a", "b">>}

\* aggregations of an aggregate operation: none, or the count and the sum of b
AggregationLists ==
    {<<>>, <<[function |-> "count", column |-> "b"], [function |-> "sum", column |-> "b"]>>}

\* the file formats that processLargeFile reads
FileExts == {"xlsx", "csv"}

\* operations of a processLargeFile job
OperationLists ==
    {<<>>, <<"filter">>, <<"aggregate">>, <<"sort">>, <<"filter", "aggregate">>,
     <<"sort", "filter">>, <<"dedupe">>, <<"fill", "sort">>}

NoJob == [dataset |-> <<>>, conditionsA |-> <<>>, conditionsB |-> <<>>, sortColumns |-> <<>>,
          groupBy |-> <<>>, aggregations |-> <<>>, fileExt |-> "xlsx", operations |-> <<>>]

\* no pipeline
NoStream == [source |-> <<>>, stages |-> <<>>, buffers |-> <<>>, ended |-> <<>>, held |-> <<>>,
             sink |-> <<>>, error |-> FALSE, finished |-> FALSE,
             processedRows |-> 0, totalRows |-> 0, processedBytes |-> 0, fileSize |-> 0,
             progress |-> 0, jobs |-> 0]

NoOutput == [op |-> "none", error |-> FALSE, rows |-> <<>>]

\* ---- the data of the cache executor --------------------------------------
\* keys of the messages: the string "a" and the number 1
Keys == {"a", "n1"}

\* String(key)
String(key) == CASE key = "a" -> "a" [] key = "n1" -> "1"

\* generateCacheKey: md5 of String(key), one digest per string
generateCacheKey(key) == CASE String(key) = "a" -> "md5(a)" [] String(key) = "1" -> "md5(1)"

CacheKeys == {generateCacheKey(k) : k \in Keys}

\* values of the messages: a string, and a byte string (Uint8Array)
Values == {"text", "bytes"}

\* JSON.parse(JSON.stringify(v)): a typed array comes back as a plain object
\* keyed by the indices
jsonRoundTrip(v) == IF v = "bytes" THEN "object" ELSE v

\* length of JSON.stringify(cacheEntry): the short and the long document
jsonLength(v) == IF v = "text" THEN 3 ELSE 6

\* length of gzip(data): the frame costs more than it saves on short data
gzipLength(n) == IF n >= 5 THEN n - 1 ELSE n + 1

\* the default of options.ttl (24 hours): longer than a scenario lasts
DefaultTtl == MaxTime

\* options.ttl: one tick, or the default
Ttls == {1, DefaultTtl}

Times == 0..MaxTime

\* a path of the data directory without a file
NoFile == [exists |-> FALSE, gz |-> FALSE, intact |-> FALSE, value |-> "none", size |-> 0]

\* no message sent yet
NoReply ==
    [op |-> "none", type |-> "none", key |-> "none", found |-> FALSE,
     reason |-> "none", data |-> "none", deletedCount |-> 0,
     totalEntries |-> 0, totalSize |-> 0]

\* no handler has begun
NoRace == [base |-> <<>>, handlers |-> <<>>, overlapped |-> FALSE,
           init |-> "done", listed |-> {}]

\* the messages that are handled at the same time: cache-set with the default
\* ttl and priority, cache-delete and cache-get
Messages ==
    {[op |-> "set", key |-> k, value |-> v, compress |-> c] :
        k \in Keys, v \in Values, c \in BOOLEAN}
    \cup {[op |-> o, key |-> k, value |-> "none", compress |-> FALSE] :
             o \in {"delete", "get"}, k \in Keys}

VARIABLES
    workers,          \* this.workers: ids registered in the pool
    availableWorkers, \* this.availableWorkers: ids in Map insertion order
    busyWorkers,      \* this.busyWorkers: ids
    taskQueue,        \* this.taskQueue: task ids
    nextWorkerId,     \* this.nextWorkerId
    isShuttingDown,   \* this.isShuttingDown
    wtype,            \* workerInfo.type
    busy,             \* workerInfo.busy
    currentTask,      \* workerInfo.currentTask (NoTask = null)
    idleTimer,        \* a live idle timeout exists for the worker
    thread,           \* state of the worker thread
    inbox,            \* messages posted to the worker, not yet answered
    sent,             \* tasks posted to the worker and not settled since
    pending,          \* assignTask passes suspended at `await createWorker`
    nextTask,         \* number of executeTask calls so far + 1
    ttype,            \* task.type
    tprio,            \* task.priority
    tstate,           \* state of the task's promise
    settles,          \* calls of task.resolve / task.reject
    shutdownPc,       \* position of shutdown()
    initCount,        \* iterations done by initialize()
    crashRejects,     \* tasks rejected by handleWorkerError
    cacheIndex,       \* CacheWorker.cacheIndex: entries in Map insertion order
    currentCacheSize, \* CacheWorker.currentCacheSize
    files,            \* the files of <cacheDir>/data, by cache key
    savedIndex,       \* the content of <cacheDir>/index/cache-index.json
    now,              \* Date.now()
    lastReply,        \* the last message sent to the parent port
    inflight,         \* the message handlers of the cache executor that have begun
    procIn,           \* the dataset and the operation descriptors of a job
    procOut,          \* what the last row operation produced
    stream            \* the streams of a processLargeFile pipeline

\* the state of the cache executor
cacheVars == <<cacheIndex, currentCacheSize, files, savedIndex, now, lastReply, inflight>>

\* the state of the pool
poolVars == <<workers, availableWorkers, busyWorkers, taskQueue, nextWorkerId,
              isShuttingDown, wtype, busy, currentTask, idleTimer, thread,
              inbox, sent, pending, nextTask, ttype, tprio, tstate, settles,
              shutdownPc, initCount, crashRejects>>

\* the state of the row operations
procVars == <<procIn, procOut, stream>>

vars == <<poolVars, cacheVars, procVars>>

\* ---- the pool as one value, so that handlers compose as the code does ---
Cur ==
    [workers |-> workers, availableWorkers |-> availableWorkers,
     busyWorkers |-> busyWorkers, taskQueue |-> taskQueue,
     nextWorkerId |-> nextWorkerId, isShuttingDown |-> isShuttingDown,
     wtype |-> wtype, busy |-> busy, currentTask |-> currentTask,
     idleTimer |-> idleTimer, thread |-> thread, inbox |-> inbox,
     sent |-> sent, pending |-> pending, nextTask |-> nextTask,
     ttype |-> ttype, tprio |-> tprio, tstate |-> tstate,
     settles |-> settles, shutdownPc |-> shutdownPc, initCount |-> initCount,
     crashRejects |-> crashRejects, overflow |-> FALSE]

Set(Q) ==
    /\ ~Q.overflow
    /\ workers' = Q.workers
    /\ availableWorkers' = Q.availableWorkers
    /\ busyWorkers' = Q.busyWorkers
    /\ taskQueue' = Q.taskQueue
    /\ nextWorkerId' = Q.nextWorkerId
    /\ isShuttingDown' = Q.isShuttingDown
    /\ wtype' = Q.wtype
    /\ busy' = Q.busy
    /\ currentTask' = Q.currentTask
    /\ idleTimer' = Q.idleTimer
    /\ thread' = Q.thread
    /\ inbox' = Q.inbox
    /\ sent' = Q.sent
    /\ pending' = Q.pending
    /\ nextTask' = Q.nextTask
    /\ ttype' = Q.ttype
    /\ tprio' = Q.tprio
    /\ tstate' = Q.tstate
    /\ settles' = Q.settles
    /\ shutdownPc' = Q.shutdownPc
    /\ initCount' = Q.initCount
    /\ crashRejects' = Q.crashRejects
    /\ UNCHANGED <<cacheVars, procVars>>

\* ---- helpers ------------------------------------------------------------
SeqRemove(s, x) == SelectSeq(s, LAMBDA y : y # x)

SeqSet(s) == {s[i] : i \in 1..Len(s)}

\* Map.set(id, v): an existing key keeps its position, a new key goes last
MapSet(s, x) == IF x \in SeqSet(s) THEN s ELSE Append(s, x)

priorityOrder(p) == CASE p = "high" -> 3 [] p = "normal" -> 2 [] p = "low" -> 1

\* ---- constructor --------------------------------------------------------
PoolInit ==
    /\ workers = {}
    /\ availableWorkers = <<>>
    /\ busyWorkers = {}
    /\ taskQueue = <<>>
    /\ nextWorkerId = 1
    /\ isShuttingDown = FALSE
    /\ wtype = [w \in WorkerIds |-> "processor"]
    /\ busy = [w \in WorkerIds |-> FALSE]
    /\ currentTask = [w \in WorkerIds |-> NoTask]
    /\ idleTimer = [w \in WorkerIds |-> FALSE]
    /\ thread = [w \in WorkerIds |-> "none"]
    /\ inbox = [w \in WorkerIds |-> <<>>]
    /\ sent = [w \in WorkerIds |-> {}]
    /\ pending = <<>>
    /\ nextTask = 1
    /\ ttype = [t \in TaskIds |-> "processor"]
    /\ tprio = [t \in TaskIds |-> "normal"]
    /\ tstate = [t \in TaskIds |-> "none"]
    /\ settles = [t \in TaskIds |-> 0]
    /\ shutdownPc = "idle"
    /\ initCount = 0
    /\ crashRejects = 0

\* the cache executor after its start-up on an empty cache directory
CacheInit ==
    /\ cacheIndex = <<>>
    /\ currentCacheSize = 0
    /\ files = [c \in CacheKeys |-> NoFile]
    /\ savedIndex = <<>>
    /\ now = 0
    /\ lastReply = NoReply
    /\ inflight = NoRace

\* no job
ProcInit ==
    /\ procIn = NoJob
    /\ procOut = NoOutput
    /\ stream = NoStream

Init == PoolInit /\ CacheInit /\ ProcInit

\* ---- WorkerPool methods, as functions of the pool value P ---------------

\* task.resolve / task.reject: the first call settles the promise
Settle(P, t, how) ==
    [P EXCEPT !.tstate[t] = IF @ = "pending" THEN how ELSE @,
              !.settles[t] = @ + 1,
              !.sent = [w \in WorkerIds |-> @[w] \ {t}]]

\* worker.threadId: a positive integer while the thread runs, -1 after exit
threadId(P, w) ==
    IF P.thread[w] \in {"exited", "crashed", "terminated"} THEN -1 ELSE w

\* worker.terminate(): the thread stops and will raise 'exit'
Terminate(P, w) ==
    IF P.thread[w] \in {"running", "errored"}
    THEN [P EXCEPT !.thread[w] = "terminating", !.inbox[w] = <<>>]
    ELSE P

setIdleTimeout(P, w) ==
    [P EXCEPT !.idleTimer[w] = (Cardinality(P.workers) > minWorkers)]

createWorkerThrows(P, type) == P.isShuttingDown \/ type \notin WorkerTypes

\* createWorker when it does not throw; it has no await, so it runs whole
createWorker(P, type) ==
    LET id == P.nextWorkerId IN
    IF id > MaxWorkerId THEN [P EXCEPT !.overflow = TRUE]
    ELSE setIdleTimeout(
           [P EXCEPT !.nextWorkerId = @ + 1,
                     !.wtype[id] = type,
                     !.busy[id] = FALSE,
                     !.currentTask[id] = NoTask,
                     !.idleTimer[id] = FALSE,
                     !.thread[id] = "running",
                     !.workers = @ \cup {id},
                     !.availableWorkers = MapSet(@, id)], id)

removeWorker(P, w) ==
    IF w \in P.workers
    THEN LET P1 == [P EXCEPT !.idleTimer[w] = FALSE,
                             !.workers = @ \ {w},
                             !.availableWorkers = SeqRemove(@, w),
                             !.busyWorkers = @ \ {w}]
         IN IF threadId(P1, w) = 0 THEN Terminate(P1, w) ELSE P1
    ELSE P

findAvailableWorker(P, type) ==
    LET a == P.availableWorkers
        same == SelectSeq(a, LAMBDA w : P.wtype[w] = type)
    IN IF same # <<>> THEN Head(same)
       ELSE IF a # <<>> THEN Head(a)
       ELSE NoWorker

\* assignTaskToWorker without the clearTimeout of the idle timer
assignTaskToWorker_KeepsTimer(P, w, t) ==
    [P EXCEPT !.busy[w] = TRUE,
              !.currentTask[w] = t,
              !.availableWorkers = SeqRemove(@, w),
              !.busyWorkers = @ \cup {w},
              !.inbox[w] = IF P.thread[w] = "running" THEN Append(@, t) ELSE @,
              !.sent[w] = @ \cup {t}]

assignTaskToWorker(P, w, t) ==
    [P EXCEPT !.busy[w] = TRUE,
              !.currentTask[w] = t,
              !.idleTimer[w] = FALSE,
              !.availableWorkers = SeqRemove(@, w),
              !.busyWorkers = @ \cup {w},
              !.inbox[w] = IF P.thread[w] = "running" THEN Append(@, t) ELSE @,
              !.sent[w] = @ \cup {t}]

\* taskQueue.shift()
Shift(q) == IF q = <<>> THEN q ELSE Tail(q)

\* assignTask up to its first suspension point
assignTask(P) ==
    IF P.taskQueue = <<>> THEN P
    ELSE
      LET task == Head(P.taskQueue)
          found == findAvailableWorker(P, P.ttype[task])
      IN IF found = NoWorker /\ Cardinality(P.workers) < maxWorkers
         THEN IF createWorkerThrows(P, P.ttype[task]) THEN P
              ELSE LET P1 == createWorker(P, P.ttype[task]) IN
                   [P1 EXCEPT !.pending =
                        Append(@, [w |-> P.nextWorkerId, t |-> task])]
         ELSE IF found # NoWorker
         THEN assignTaskToWorker([P EXCEPT !.taskQueue = Shift(@)], found, task)
         ELSE P

\* assignTask after `await this.createWorker(...)` returned workerInfo
assignTaskResume(P) ==
    LET c == Head(P.pending)
        P1 == [P EXCEPT !.pending = Tail(@), !.taskQueue = Shift(@)]
    IN assignTaskToWorker(P1, c.w, c.t)

\* releaseWorker without this.busyWorkers.delete(workerInfo.id)
releaseWorker_KeepsBusy(P, w) ==
    setIdleTimeout(
      [P EXCEPT !.busy[w] = FALSE,
                !.currentTask[w] = NoTask,
                !.availableWorkers = MapSet(@, w)], w)

releaseWorker(P, w) ==
    setIdleTimeout(
      [P EXCEPT !.busy[w] = FALSE,
                !.currentTask[w] = NoTask,
                !.busyWorkers = @ \ {w},
                !.availableWorkers = MapSet(@, w)], w)

completeTask(P, w, t) == assignTask(Settle(releaseWorker(P, w), t, "resolved"))

failTask(P, w, t) == assignTask(Settle(releaseWorker(P, w), t, "rejected"))

handleTaskResult(P, w, messageId) ==
    IF P.currentTask[w] # NoTask /\ P.currentTask[w] = messageId
    THEN completeTask(P, w, P.currentTask[w]) ELSE P

handleTaskError(P, w, messageId) ==
    IF P.currentTask[w] # NoTask /\ P.currentTask[w] = messageId
    THEN failTask(P, w, P.currentTask[w]) ELSE P

recreateWorker(P, w) ==
    IF createWorkerThrows(P, P.wtype[w]) THEN P ELSE createWorker(P, P.wtype[w])

handleWorkerError(P, w) ==
    LET P1 == IF P.currentTask[w] # NoTask
              THEN [failTask(P, w, P.currentTask[w])
                      EXCEPT !.crashRejects = @ + 1]
              ELSE P
    IN recreateWorker(P1, w)

handleWorkerExit(P, w, code) ==
    LET P1 == removeWorker(P, w) IN
    IF code # 0 /\ ~P1.isShuttingDown THEN recreateWorker(P1, w) ELSE P1

\* b.priority - a.priority > 0: b sorts before a
RECURSIVE InsertSorted(_, _, _)
InsertSorted(P, s, t) ==
    IF s = <<>> THEN <<t>>
    ELSE IF priorityOrder(P.tprio[t]) > priorityOrder(P.tprio[Head(s)])
         THEN <<t>> \o s
         ELSE <<Head(s)>> \o InsertSorted(P, Tail(s), t)

\* Array.prototype.sort with the priority comparator: a stable sort
RECURSIVE sortQueue(_, _)
sortQueue(P, q) ==
    IF q = <<>> THEN <<>>
    ELSE InsertSorted(P, sortQueue(P, SubSeq(q, 1, Len(q) - 1)), q[Len(q)])

executeTask(P, type, priority) ==
    LET t == P.nextTask
        P1 == [P EXCEPT !.nextTask = @ + 1,
                        !.ttype[t] = type,
                        !.tprio[t] = priority,
                        !.tstate[t] = "pending"]
        P2 == [P1 EXCEPT !.taskQueue = sortQueue(P1, Append(@, t))]
    IN assignTask(P2)

\* shutdown(): the loop exit and the terminate calls are one synchronous run
shutdownTerminate(P) ==
    LET ws == P.workers
        P1 == [P EXCEPT !.thread = [w \in WorkerIds |->
                           IF w \in ws /\ @[w] \in {"running", "errored"}
                           THEN "terminating" ELSE @[w]],
                        !.inbox = [w \in WorkerIds |->
                           IF w \in ws THEN <<>> ELSE @[w]]]
    IN [P1 EXCEPT !.shutdownPc = "terminating"]

shutdown(P) ==
    LET P1 == [P EXCEPT !.isShuttingDown = TRUE] IN
    IF P1.busyWorkers = {} THEN shutdownTerminate(P1)
    ELSE [P1 EXCEPT !.shutdownPc = "waiting"]

shutdownClear(P) ==
    [P EXCEPT !.workers = {}, !.availableWorkers = <<>>, !.busyWorkers = {},
              !.taskQueue = <<>>, !.shutdownPc = "done"]

\* ---- the event loop -----------------------------------------------------
\* worker messages, worker events and timers run between microtask drains
Macrotask == pending = <<>>

\* initialize() is the start-up call: it runs before the first submission
Initialize ==
    /\ initCount < minWorkers
    /\ nextTask = 1
    /\ ~isShuttingDown
    /\ Set([createWorker(Cur, "processor") EXCEPT !.initCount = @ + 1])

\* executeTask('processor', taskType, data, {priority})
ExecutePriorityTask ==
    /\ nextTask <= MaxTasks
    /\ \E priority \in Priorities :
          Set(executeTask(Cur, "processor", priority))

\* executeTask(type, taskType, data) with no options: priority 'normal'
ExecuteDefaultTask ==
    /\ nextTask <= MaxLifecycleTasks
    /\ Set(executeTask(Cur, "processor", "normal"))

\* executeTask(type, taskType, data) for a task of either kind
ExecuteKindTask ==
    /\ nextTask <= MaxTasks
    /\ \E type \in WorkerTypes :
          Set(executeTask(Cur, type, "normal"))

ResumeAssign ==
    /\ pending # <<>>
    /\ Set(assignTaskResume(Cur))

\* worker w answers the oldest message it was posted: {type: 'result', id}
WorkerResultOf(w) ==
    /\ Macrotask /\ thread[w] = "running" /\ inbox[w] # <<>>
    /\ Set(handleTaskResult([Cur EXCEPT !.inbox[w] = Tail(@)], w,
                            Head(inbox[w])))

WorkerResult == \E w \in WorkerIds : WorkerResultOf(w)

\* worker w answers the oldest message it was posted: {type: 'error', id}
WorkerTaskErrorOf(w) ==
    /\ Macrotask /\ thread[w] = "running" /\ inbox[w] # <<>>
    /\ Set(handleTaskError([Cur EXCEPT !.inbox[w] = Tail(@)], w,
                           Head(inbox[w])))

WorkerTaskError == \E w \in WorkerIds : WorkerTaskErrorOf(w)

\* threads that failed on their own: 'error' raised, or exited unasked
Crashed == {w \in WorkerIds : thread[w] \in {"errored", "crashed", "exited"}}

WorkerErrorEvent ==
    \E w \in WorkerIds :
      /\ Macrotask /\ thread[w] = "running"
      /\ Cardinality(Crashed) < MaxCrashes
      /\ Set(handleWorkerError(
               [Cur EXCEPT !.thread[w] = "errored", !.inbox[w] = <<>>], w))

\* the workerInfo of an exited worker is referenced by nothing once its
\* 'exit' handler has returned
Collect(P, w) ==
    [P EXCEPT !.busy[w] = FALSE, !.currentTask[w] = NoTask,
              !.wtype[w] = "processor", !.sent[w] = {}, !.inbox[w] = <<>>]

\* 'exit' of worker w with an exit code: a thread that raised 'error' or
\* was terminated exits with code 1
WorkerExitOf(w, code) ==
    /\ Macrotask
    /\ \/ thread[w] = "running" /\ Cardinality(Crashed) < MaxCrashes
       \/ thread[w] \in {"errored", "terminating"} /\ code = 1
    /\ Set(Collect(handleWorkerExit(
             [Cur EXCEPT !.thread[w] =
                            CASE @ = "errored" -> "crashed"
                              [] @ = "terminating" -> "terminated"
                              [] OTHER -> "exited",
                         !.inbox[w] = <<>>], w, code), w))

WorkerExitEvent == \E w \in WorkerIds, code \in {0, 1} : WorkerExitOf(w, code)

IdleTimeout ==
    \E w \in WorkerIds :
      /\ Macrotask /\ idleTimer[w]
      /\ LET P1 == [Cur EXCEPT !.idleTimer[w] = FALSE] IN
         Set(IF ~P1.busy[w] /\ Cardinality(P1.workers) > minWorkers
             THEN removeWorker(P1, w) ELSE P1)

Shutdown ==
    /\ shutdownPc = "idle"
    /\ Set(shutdown(Cur))

ShutdownPoll ==
    /\ shutdownPc = "waiting" /\ Macrotask
    /\ busyWorkers = {}
    /\ Set(shutdownTerminate(Cur))

ShutdownFinish ==
    /\ shutdownPc = "terminating" /\ Macrotask
    /\ \A w \in WorkerIds : thread[w] # "terminating"
    /\ Set(shutdownClear(Cur))


\* ---- CacheWorker: the executor as one value -----------------------------
CurCache ==
    [cacheIndex |-> cacheIndex, currentCacheSize |-> currentCacheSize,
     files |-> files, savedIndex |-> savedIndex, now |-> now,
     lastReply |-> lastReply, inflight |-> inflight]

SetCache(K) ==
    /\ cacheIndex' = K.cacheIndex
    /\ currentCacheSize' = K.currentCacheSize
    /\ files' = K.files
    /\ savedIndex' = K.savedIndex
    /\ now' = K.now
    /\ lastReply' = K.lastReply
    /\ inflight' = K.inflight
    /\ UNCHANGED <<poolVars, procVars>>

\* cacheIndex.has / get / set / delete; the Map keeps insertion order
IndexHas(idx, c) == \E i \in 1..Len(idx) : idx[i].cacheKey = c

IndexGet(idx, c) == idx[CHOOSE i \in 1..Len(idx) : idx[i].cacheKey = c]

IndexSet(idx, e) ==
    IF IndexHas(idx, e.cacheKey)
    THEN [i \in 1..Len(idx) |-> IF idx[i].cacheKey = e.cacheKey THEN e ELSE idx[i]]
    ELSE Append(idx, e)

IndexDelete(idx, c) == SelectSeq(idx, LAMBDA e : e.cacheKey # c)

\* now - cacheInfo.timestamp > cacheInfo.ttl
Expired(K, e) == K.now - e.timestamp > e.ttl

saveCacheIndex(K) == [K EXCEPT !.savedIndex = K.cacheIndex]

sendResult(K, r) == [K EXCEPT !.lastReply = r]

sendError(K, op, key) ==
    [K EXCEPT !.lastReply = [NoReply EXCEPT !.op = op, !.type = "error", !.key = key]]

Result(op, key) == [NoReply EXCEPT !.op = op, !.type = "result", !.key = key]

\* deleteCacheEntry that never gives the size of the entry back
deleteCacheEntry_KeepsTotal(K, c) ==
    IF ~IndexHas(K.cacheIndex, c) THEN K
    ELSE saveCacheIndex([K EXCEPT !.files[c] = NoFile,
                                  !.cacheIndex = IndexDelete(@, c)])

deleteCacheEntry(K, c) ==
    IF ~IndexHas(K.cacheIndex, c) THEN K
    ELSE
      LET info == IndexGet(K.cacheIndex, c)
          \* unlink; the size is given back only when unlink succeeded
          U == IF K.files[c].exists
               THEN [K EXCEPT !.files[c] = NoFile,
                              !.currentCacheSize = @ - info.size]
               ELSE K
      IN saveCacheIndex([U EXCEPT !.cacheIndex = IndexDelete(@, c)])

\* the comparator of evictOldCache, as "a sorts before b"
evictOrder(p) == CASE p = "low" -> 0 [] p = "normal" -> 1 [] p = "high" -> 2

\* a comparator that puts the high priorities first
EvictBefore_HighFirst(a, b) ==
    IF a.priority # b.priority
    THEN evictOrder(a.priority) > evictOrder(b.priority)
    ELSE a.timestamp < b.timestamp

EvictBefore(a, b) ==
    IF a.priority # b.priority
    THEN evictOrder(a.priority) < evictOrder(b.priority)
    ELSE a.timestamp < b.timestamp

RECURSIVE EvictInsert(_, _)
EvictInsert(s, e) ==
    IF s = <<>> THEN <<e>>
    ELSE IF EvictBefore(e, Head(s)) THEN <<e>> \o s
    ELSE <<Head(s)>> \o EvictInsert(Tail(s), e)

\* entries.sort(...): Array.prototype.sort is stable
RECURSIVE EvictSort(_)
EvictSort(s) ==
    IF s = <<>> THEN <<>>
    ELSE EvictInsert(EvictSort(SubSeq(s, 1, Len(s) - 1)), s[Len(s)])

\* currentCacheSize <= maxCacheSize * 0.7
AtTarget(K) == 10 * K.currentCacheSize <= 7 * maxCacheSize

RECURSIVE evictLoop(_, _)
evictLoop(K, entries) ==
    IF entries = <<>> \/ AtTarget(K) THEN K
    ELSE evictLoop(deleteCacheEntry(K, Head(entries).cacheKey), Tail(entries))

evictOldCache(K) == evictLoop(K, EvictSort(K.cacheIndex))

\* the bytes written by setCacheData
NewFile(value, compress) ==
    [exists |-> TRUE, gz |-> compress, intact |-> TRUE,
     value |-> jsonRoundTrip(value),
     size |-> IF compress THEN gzipLength(jsonLength(value)) ELSE jsonLength(value)]

\* a write that failed after the file was opened leaves it empty
Truncated == [exists |-> TRUE, gz |-> FALSE, intact |-> FALSE, value |-> "none", size |-> 0]

\* the index entry made by setCacheData
NewEntry(K, key, value, ttl, compress, priority) ==
    [cacheKey |-> generateCacheKey(key), key |-> key, timestamp |-> K.now,
     ttl |-> ttl, size |-> NewFile(value, compress).size,
     compressed |-> compress, priority |-> priority]

\* setCacheData from the write of the file to saveCacheIndex
setCacheWrite(K, key, value, ttl, compress, priority) ==
    LET e == NewEntry(K, key, value, ttl, compress, priority)
    IN saveCacheIndex([K EXCEPT !.files[e.cacheKey] = NewFile(value, compress),
                                !.cacheIndex = IndexSet(@, e),
                                !.currentCacheSize = @ + e.size])

\* setCacheData that puts the entry in the index before it writes the file
setCacheData_IndexFirst(K, key, value, ttl, compress, priority, writeFails, truncates) ==
    LET c == generateCacheKey(key)
        W == setCacheWrite(K, key, value, ttl, compress, priority)
    IN IF writeFails
       THEN sendError([W EXCEPT !.files[c] = IF truncates THEN Truncated ELSE K.files[c]],
                      "set", key)
       ELSE sendResult(IF W.currentCacheSize > maxCacheSize THEN evictOldCache(W) ELSE W,
                       Result("set", key))

setCacheData(K, key, value, ttl, compress, priority, writeFails, truncates) ==
    LET c == generateCacheKey(key)
    IN IF writeFails
       THEN sendError([K EXCEPT !.files[c] = IF truncates THEN Truncated ELSE @],
                      "set", key)
       ELSE LET W == setCacheWrite(K, key, value, ttl, compress, priority)
                E == IF W.currentCacheSize > maxCacheSize THEN evictOldCache(W) ELSE W
            IN sendResult(E, Result("set", key))

\* gunzip and JSON.parse of the bytes read succeed
Readable(info, f) == f.intact /\ f.gz = info.compressed

\* getCacheData that keeps the index entry when the file is missing
getCacheData_KeepsLostEntry(K, key) ==
    LET c == generateCacheKey(key) IN
    IF ~IndexHas(K.cacheIndex, c)
    THEN sendResult(K, [Result("get", key) EXCEPT !.reason = "Cache miss"])
    ELSE
      LET info == IndexGet(K.cacheIndex, c) IN
      IF Expired(K, info)
      THEN sendResult(deleteCacheEntry(K, c),
                      [Result("get", key) EXCEPT !.reason = "Cache expired"])
      ELSE IF ~K.files[c].exists
      THEN sendResult(K, [Result("get", key) EXCEPT !.reason = "Cache file not found"])
      ELSE IF ~Readable(info, K.files[c])
      THEN sendError(K, "get", key)
      ELSE sendResult(K, [Result("get", key) EXCEPT
                            !.found = TRUE, !.data = K.files[c].value])

getCacheData(K, key) ==
    LET c == generateCacheKey(key) IN
    IF ~IndexHas(K.cacheIndex, c)
    THEN sendResult(K, [Result("get", key) EXCEPT !.reason = "Cache miss"])
    ELSE
      LET info == IndexGet(K.cacheIndex, c) IN
      IF Expired(K, info)
      THEN sendResult(deleteCacheEntry(K, c),
                      [Result("get", key) EXCEPT !.reason = "Cache expired"])
      ELSE IF ~K.files[c].exists
      THEN \* readFile throws ENOENT
           sendResult(saveCacheIndex([K EXCEPT !.cacheIndex = IndexDelete(@, c)]),
                      [Result("get", key) EXCEPT !.reason = "Cache file not found"])
      ELSE IF ~Readable(info, K.files[c])
      THEN \* gunzip or JSON.parse throws
           sendError(K, "get", key)
      ELSE sendResult(K, [Result("get", key) EXCEPT
                            !.found = TRUE, !.data = K.files[c].value])

deleteCacheData(K, key) ==
    sendResult(deleteCacheEntry(K, generateCacheKey(key)), Result("delete", key))

\* the files of the data directory
FilesOf(K) == {c \in CacheKeys : K.files[c].exists}

\* clearCache that leaves currentCacheSize as it was
clearCache_KeepsTotal(K) ==
    sendResult(
      saveCacheIndex([K EXCEPT !.files = [c \in CacheKeys |-> NoFile],
                               !.cacheIndex = <<>>]),
      [Result("clear", "none") EXCEPT !.deletedCount = Cardinality(FilesOf(K))])

\* clearCache without a pattern
clearCache(K) ==
    sendResult(
      saveCacheIndex([K EXCEPT !.files = [c \in CacheKeys |-> NoFile],
                               !.cacheIndex = <<>>,
                               !.currentCacheSize = 0]),
      [Result("clear", "none") EXCEPT !.deletedCount = Cardinality(FilesOf(K))])

getCacheInfo(K) ==
    sendResult(K, [Result("info", "none") EXCEPT
                     !.totalEntries = Len(K.cacheIndex),
                     !.totalSize = K.currentCacheSize])

RECURSIVE deleteAll(_, _)
deleteAll(K, cs) ==
    IF cs = <<>> THEN K ELSE deleteAll(deleteCacheEntry(K, Head(cs).cacheKey), Tail(cs))

cleanupExpiredCacheInternal(K) ==
    deleteAll(K, SelectSeq(K.cacheIndex, LAMBDA e : Expired(K, e)))

\* one iteration of the loop of compressUncompressedCache and compressCache;
\* gzip over bytes that are already gzip leaves a file that one gunzip does
\* not turn into JSON
\* the rewrite of compressUncompressedCache that leaves cacheInfo.compressed
\* as it was
compressEntry_KeepsFlag(K, c) ==
    LET info == IndexGet(K.cacheIndex, c)
        f == K.files[c]
    IN IF info.compressed \/ ~f.exists \/ ~(gzipLength(f.size) < f.size) THEN K
       ELSE [K EXCEPT
               !.files[c] = [f EXCEPT !.gz = TRUE, !.intact = f.intact /\ ~f.gz,
                                      !.size = gzipLength(f.size)],
               !.currentCacheSize = @ - (f.size - gzipLength(f.size)),
               !.cacheIndex = IndexSet(@, [info EXCEPT !.size = gzipLength(f.size)])]

compressEntry(K, c) ==
    LET info == IndexGet(K.cacheIndex, c)
        f == K.files[c]
    IN IF info.compressed \/ ~f.exists \/ ~(gzipLength(f.size) < f.size) THEN K
       ELSE [K EXCEPT
               !.files[c] = [f EXCEPT !.gz = TRUE, !.intact = f.intact /\ ~f.gz,
                                      !.size = gzipLength(f.size)],
               !.currentCacheSize = @ - (f.size - gzipLength(f.size)),
               !.cacheIndex = IndexSet(@, [info EXCEPT !.compressed = TRUE,
                                                       !.size = gzipLength(f.size)])]

RECURSIVE compressLoop(_, _)
compressLoop(K, cs) ==
    IF cs = <<>> THEN K ELSE compressLoop(compressEntry(K, Head(cs).cacheKey), Tail(cs))

compressUncompressedCache(K) ==
    LET C == compressLoop(K, K.cacheIndex)
    IN IF C.currentCacheSize < K.currentCacheSize THEN saveCacheIndex(C) ELSE C

cleanupExpiredCache(K) ==
    sendResult(cleanupExpiredCacheInternal(K), Result("cleanup", "none"))

optimizeCache(K) ==
    LET C == compressUncompressedCache(cleanupExpiredCacheInternal(K))
        E == IF 10 * C.currentCacheSize > 8 * maxCacheSize THEN evictOldCache(C) ELSE C
    IN sendResult(E, Result("optimize", "none"))

\* compressCache with keys = []
compressCache(K) ==
    sendResult(compressUncompressedCache(K), Result("compress", "none"))

\* the sizes of the files of the data directory, added up
RECURSIVE sizeOfFiles(_, _)
sizeOfFiles(K, cs) ==
    IF cs = {} THEN 0
    ELSE LET c == CHOOSE x \in cs : TRUE
         IN K.files[c].size + sizeOfFiles(K, cs \ {c})

\* loadCacheIndex: the index is what the index file holds
loadCacheIndex(K) == [K EXCEPT !.cacheIndex = K.savedIndex]

\* calculateCacheSize: the total is the size of every file of the data
\* directory
calculateCacheSize(K) == [K EXCEPT !.currentCacheSize = sizeOfFiles(K, FilesOf(K))]

\* initializeCache of a new CacheWorker on the cache directory
initializeCache(K) == calculateCacheSize(loadCacheIndex([K EXCEPT !.lastReply = NoReply]))

\* the constructor of a CacheWorker on a cache directory D left by an earlier
\* run: an empty index, a total of 0, and initializeCache begun and waiting
\* at the await of ensureCacheDirectory
CacheWorker(D) ==
    [D EXCEPT !.cacheIndex = <<>>,
              !.currentCacheSize = 0,
              !.lastReply = NoReply,
              !.inflight = [NoRace EXCEPT !.init = "ensure"]]

\* initializeCache from the completion of the await it waits at to its next
\* await: ensureCacheDirectory, the readFile of loadCacheIndex, and the
\* readdir and the stats of calculateCacheSize
stepInitialize(K) ==
    CASE K.inflight.init = "ensure" -> [K EXCEPT !.inflight.init = "load"]
      [] K.inflight.init = "load" ->
            [K EXCEPT !.cacheIndex = K.savedIndex, !.inflight.init = "readdir"]
      [] K.inflight.init = "readdir" ->
            \* an empty directory: the loop has no stat to wait for
            IF FilesOf(K) = {}
            THEN [K EXCEPT !.currentCacheSize = 0, !.inflight.init = "done"]
            ELSE [K EXCEPT !.inflight.listed = FilesOf(K), !.inflight.init = "stat"]
      [] K.inflight.init = "stat" ->
            [K EXCEPT !.currentCacheSize =
                          IF \A c \in K.inflight.listed : K.files[c].exists
                          THEN sizeOfFiles(K, K.inflight.listed) ELSE 0,
                      !.inflight.init = "done"]

\* ---- the handlers of the cache executor, one await at a time -------------
\* handleMessage from the arrival of the message to the first await of
\* setCacheData, deleteCacheData or getCacheData that waits for the file
\* system; h is the handler with its local variables
startHandler(K, m) ==
    LET c == generateCacheKey(m.key)
        h == [msg |-> m, pc |-> "done", cacheInfo |-> <<>>, timestamp |-> K.now,
              snapshot |-> <<>>, reason |-> "none"]
    IN CASE m.op = "set" -> [K |-> K, h |-> [h EXCEPT !.pc = "write"]]
         [] m.op = "delete" ->
              IF IndexHas(K.cacheIndex, c)
              THEN [K |-> K, h |-> [h EXCEPT !.pc = "unlink",
                                             !.cacheInfo = IndexGet(K.cacheIndex, c)]]
              ELSE [K |-> sendResult(K, Result("delete", m.key)), h |-> h]
         [] m.op = "get" ->
              IF ~IndexHas(K.cacheIndex, c)
              THEN [K |-> sendResult(K, [Result("get", m.key) EXCEPT !.reason = "Cache miss"]),
                    h |-> h]
              ELSE LET info == IndexGet(K.cacheIndex, c)
                   IN IF Expired(K, info)
                      THEN [K |-> K, h |-> [h EXCEPT !.pc = "unlink", !.cacheInfo = info,
                                                     !.reason = "Cache expired"]]
                      ELSE [K |-> K, h |-> [h EXCEPT !.pc = "read", !.cacheInfo = info]]

\* the handler from the completion of the await it waits at to its next await
stepHandler(K, h) ==
    LET m == h.msg
        c == generateCacheKey(m.key)
    IN CASE h.pc = "write" ->
              \* fs.writeFile is done
              [K |-> [K EXCEPT !.files[c] = NewFile(m.value, m.compress)],
               h |-> [h EXCEPT !.pc = "stat"]]
         [] h.pc = "stat" ->
              \* fs.stat is done: cacheIndex.set, currentCacheSize +=, and
              \* saveCacheIndex up to its writeFile
              IF ~K.files[c].exists
              THEN [K |-> sendError(K, "set", m.key), h |-> [h EXCEPT !.pc = "done"]]
              ELSE LET e == [cacheKey |-> c, key |-> m.key, timestamp |-> h.timestamp,
                             ttl |-> DefaultTtl, size |-> K.files[c].size,
                             compressed |-> m.compress, priority |-> "normal"]
                       K1 == [K EXCEPT !.cacheIndex = IndexSet(@, e),
                                       !.currentCacheSize = @ + e.size]
                   IN [K |-> K1, h |-> [h EXCEPT !.pc = "save", !.snapshot = K1.cacheIndex]]
         [] h.pc = "unlink" ->
              \* fs.unlink of deleteCacheEntry is done or has thrown ENOENT
              LET U == IF K.files[c].exists
                       THEN [K EXCEPT !.files[c] = NoFile,
                                      !.currentCacheSize = @ - h.cacheInfo.size]
                       ELSE K
                  K1 == [U EXCEPT !.cacheIndex = IndexDelete(@, c)]
              IN [K |-> K1, h |-> [h EXCEPT !.pc = "save", !.snapshot = K1.cacheIndex]]
         [] h.pc = "read" ->
              \* fs.readFile is done or has thrown ENOENT
              IF ~K.files[c].exists
              THEN LET K1 == [K EXCEPT !.cacheIndex = IndexDelete(@, c)]
                   IN [K |-> K1, h |-> [h EXCEPT !.pc = "save", !.snapshot = K1.cacheIndex,
                                                 !.reason = "Cache file not found"]]
              ELSE IF ~Readable(h.cacheInfo, K.files[c])
              THEN [K |-> sendError(K, "get", m.key), h |-> [h EXCEPT !.pc = "done"]]
              ELSE [K |-> sendResult(K, [Result("get", m.key) EXCEPT
                                           !.found = TRUE, !.data = K.files[c].value]),
                    h |-> [h EXCEPT !.pc = "done"]]
         [] h.pc = "save" ->
              \* the writeFile of saveCacheIndex is done
              LET K1 == [K EXCEPT !.savedIndex = h.snapshot]
                  E == IF m.op = "set" /\ K1.currentCacheSize > maxCacheSize
                       THEN evictOldCache(K1) ELSE K1
              IN [K |-> sendResult(E, [Result(m.op, m.key) EXCEPT !.reason = h.reason]),
                  h |-> [h EXCEPT !.pc = "done"]]

\* the handlers that wait at an await
Waiting(K) == {i \in 1..Len(K.inflight.handlers) : K.inflight.handlers[i].pc # "done"}

\* the message as the executor handles it when nothing else is in flight
handleMessage(K, m) ==
    CASE m.op = "set" ->
            setCacheData(K, m.key, m.value, DefaultTtl, m.compress, "normal", FALSE, FALSE)
      [] m.op = "delete" -> deleteCacheData(K, m.key)
      [] m.op = "get" -> getCacheData(K, m.key)

\* ---- the messages of the cache executor, and its environment ------------
CacheSetWith(key, value, ttl, compress, priority) ==
    SetCache(setCacheData(CurCache, key, value, ttl, compress, priority,
                          FALSE, FALSE))

\* cache-set with the default ttl, and every compression and priority
CacheSetPriority ==
    \E key \in Keys, value \in Values, compress \in BOOLEAN,
       priority \in Priorities :
        CacheSetWith(key, value, DefaultTtl, compress, priority)

\* cache-set with a ttl, and the default compression and priority
CacheSetTtl ==
    \E key \in Keys, value \in Values, ttl \in Ttls :
        CacheSetWith(key, value, ttl, TRUE, "normal")

\* cache-set with options.compress = false, and every ttl
CacheSetPlain ==
    \E key \in Keys, value \in Values, ttl \in Ttls :
        CacheSetWith(key, value, ttl, FALSE, "normal")

\* cache-set with the default options whose fs.writeFile throws
CacheSetFailsOf(key) ==
    \E value \in Values, truncates \in BOOLEAN :
        SetCache(setCacheData(CurCache, key, value, DefaultTtl, TRUE, "normal",
                              TRUE, truncates))

CacheSetFails == \E key \in Keys : CacheSetFailsOf(key)

CacheGetOf(key) == SetCache(getCacheData(CurCache, key))

CacheGet == \E key \in Keys : CacheGetOf(key)

CacheDelete == \E key \in Keys : SetCache(deleteCacheData(CurCache, key))

CacheClear == SetCache(clearCache(CurCache))

CacheInfo == SetCache(getCacheInfo(CurCache))

CacheCleanup == SetCache(cleanupExpiredCache(CurCache))

CacheOptimize == SetCache(optimizeCache(CurCache))

CacheCompress == SetCache(compressCache(CurCache))

\* a message arrives while at most one handler has begun, for the key of
\* that handler: its handler runs up to its first await
MessageArrives ==
    \E m \in Messages :
        /\ Len(inflight.handlers) < 2
        /\ inflight.handlers # <<>> => m.key = inflight.handlers[1].msg.key
        /\ LET did == startHandler(CurCache, m)
           IN SetCache([did.K EXCEPT
                  !.inflight =
                      [inflight EXCEPT
                         !.base = IF inflight.handlers = <<>>
                                  THEN [CurCache EXCEPT !.inflight = NoRace]
                                  ELSE inflight.base,
                         !.handlers = Append(inflight.handlers, did.h),
                         !.overlapped = Waiting(CurCache) # {}]])

\* an await of a handler completes and the handler runs up to its next await
HandlerStep ==
    \E i \in Waiting(CurCache) :
        LET did == stepHandler(CurCache, inflight.handlers[i])
        IN SetCache([did.K EXCEPT !.inflight.handlers[i] = did.h])

\* an await of initializeCache completes
InitializeStep ==
    /\ inflight.init # "done"
    /\ SetCache(stepInitialize(CurCache))

\* a message arrives while initializeCache is still running
MessageDuringInit ==
    /\ inflight.init # "done"
    /\ MessageArrives

\* cache-set of the key "a", handled alone, before the messages that overlap
SetBefore ==
    /\ inflight = NoRace
    /\ \E value \in Values, ttl \in Ttls : CacheSetWith("a", value, ttl, TRUE, "normal")

\* Date.now() moves on before the messages that overlap
TickBefore ==
    /\ inflight = NoRace
    /\ now < MaxTime
    /\ SetCache([CurCache EXCEPT !.now = @ + 1])

\* the cache executor is started again on its cache directory
CacheRestart == SetCache(initializeCache(CurCache))

\* Date.now() moves on
Tick ==
    /\ now < MaxTime
    /\ SetCache([CurCache EXCEPT !.now = @ + 1])

\* the operating system cleans a file out of the temporary directory
FileLost ==
    \E c \in CacheKeys :
        /\ files[c].exists
        /\ SetCache([CurCache EXCEPT !.files[c] = NoFile, !.lastReply = NoReply])

\* ---- the row operations ---------------------------------------------------
\* Number(v)
Number(v) ==
    CASE v = "1" -> 1 [] v = "2" -> 2 [] v = "9" -> 9 [] v = "10" -> 10
      [] v = "null" -> 0 [] v = "" -> 0

\* isNaN(Number(v)): the numbers, null and the empty text convert to a number
IsNaN(v) == v \notin {"1", "2", "9", "10", "null", ""}

\* !isNaN(new Date(v).getTime()): a number and null are instants, the text
\* is not a date, nor is a number followed by a word
IsDate(v) == v \notin {"N/A", "5kg"}

\* the order of String(v || '') by code units and by localeCompare:
\* '' < '1' < '10' < '2' < '5kg' < '9' < 'N/A'
StringRank(v) ==
    CASE v = "null" -> 0 [] v = "1" -> 1 [] v = "10" -> 2 [] v = "2" -> 3
      [] v = "5kg" -> 4 [] v = "9" -> 5 [] v = "N/A" -> 6

\* x - y as a sign
Sign(x, y) == IF x < y THEN -1 ELSE IF x > y THEN 1 ELSE 0

Relate(x, y, operator) ==
    CASE operator = "===" -> x = y
      [] operator = "!==" -> x # y
      [] operator = ">" -> x > y

\* DataProcessorWorker.compareValues; new Date(n) of a number n is the
\* instant n, so two dates compare as their numbers do
compareValues(a, b, operator) ==
    IF ~IsNaN(a) /\ ~IsNaN(b) THEN Relate(Number(a), Number(b), operator)
    ELSE IF IsDate(a) /\ IsDate(b) THEN Relate(Number(a), Number(b), operator)
    ELSE Relate(StringRank(a), StringRank(b), operator)

\* the callback of conditions.every in DataProcessorWorker.evaluateConditions
evaluateCondition(row, condition) ==
    LET cellValue == row[condition.column] IN
    CASE condition.operator = "equals" -> compareValues(cellValue, condition.value, "===")
      [] condition.operator = "not_equals" -> compareValues(cellValue, condition.value, "!==")
      [] condition.operator = "greater_than" -> compareValues(cellValue, condition.value, ">")
      [] OTHER -> TRUE

evaluateConditions(row, conditions) ==
    \A i \in 1..Len(conditions) : evaluateCondition(row, conditions[i])

\* the rows that DataProcessorWorker.filterData sends back
filterData(dataset, conditions) ==
    SelectSeq(dataset, LAMBDA row : evaluateConditions(row, conditions))

\* the evaluateConditions written in the options of the filter Transform:
\* cellValue == value, cellValue != value, Number(cellValue) > Number(value)
streamEvaluateCondition(row, condition) ==
    LET cellValue == row[condition.column] IN
    CASE condition.operator = "equals" ->
            ~IsNaN(cellValue) /\ cellValue # "null" /\ Number(cellValue) = Number(condition.value)
      [] condition.operator = "not_equals" ->
            ~(~IsNaN(cellValue) /\ cellValue # "null" /\ Number(cellValue) = Number(condition.value))
      [] condition.operator = "greater_than" ->
            ~IsNaN(cellValue) /\ Number(cellValue) > Number(condition.value)
      [] OTHER -> TRUE

streamEvaluateConditions(row, conditions) ==
    \A i \in 1..Len(conditions) : streamEvaluateCondition(row, conditions[i])

\* the options that the stream constructors install on the stream object
StreamOptions == {"transform", "flush", "final", "construct", "destroy",
                  "read", "write", "writev"}

\* the members that `this` has inside transform(): the filter stream is made
\* by new Transform({objectMode, transform, evaluateConditions})
FilterStreamMembers == {"transform", "evaluateConditions"} \cap StreamOptions

\* the chunks pushed by processExcelInChunks
RECURSIVE Chunks(_)
Chunks(rows) ==
    IF rows = <<>> THEN <<>>
    ELSE IF Len(rows) <= chunkSize THEN <<rows>>
    ELSE <<SubSeq(rows, 1, chunkSize)>> \o Chunks(SubSeq(rows, chunkSize + 1, Len(rows)))

RECURSIVE Concat(_)
Concat(chunks) == IF chunks = <<>> THEN <<>> ELSE Head(chunks) \o Concat(Tail(chunks))

\* transform() of createFilterStream on one data chunk: chunk.chunk.filter
\* calls this.evaluateConditions for the first row, which throws a
\* TypeError unless the stream has that member
filterTransform(chunk, conditions) ==
    IF chunk = <<>> THEN [error |-> FALSE, chunks |-> <<>>]
    ELSE IF "evaluateConditions" \notin FilterStreamMembers
    THEN [error |-> TRUE, chunks |-> <<>>]
    ELSE LET filteredChunk == SelectSeq(chunk, LAMBDA row :
                                  streamEvaluateConditions(row, conditions))
         IN [error |-> FALSE,
             chunks |-> IF filteredChunk = <<>> THEN <<>> ELSE <<filteredChunk>>]

\* a filter stream fed with the chunks of `in`; an error ends the pipeline
RECURSIVE filterStream(_, _)
filterStream(in, conditions) ==
    IF in.error \/ in.chunks = <<>> THEN in
    ELSE LET one == filterTransform(Head(in.chunks), conditions)
             rest == filterStream([in EXCEPT !.chunks = Tail(@)], conditions)
         IN IF one.error THEN one
            ELSE [error |-> rest.error, chunks |-> one.chunks \o rest.chunks]

\* the source of a pipeline
Source(dataset) == [error |-> FALSE, chunks |-> Chunks(dataset)]

\* DataProcessorWorker.compareForSort, as a sign
compareForSort(a, b) ==
    IF a = "null" THEN (IF b = "null" THEN 0 ELSE -1)
    ELSE IF b = "null" THEN 1
    ELSE IF ~IsNaN(a) /\ ~IsNaN(b) THEN Sign(Number(a), Number(b))
    ELSE IF IsDate(a) /\ IsDate(b) THEN Sign(Number(a), Number(b))
    ELSE Sign(StringRank(a), StringRank(b))

\* the comparison of createSortStream: aVal < bVal, aVal > bVal; relational
\* operators turn null into 0 and a text into NaN when the other side is a
\* number, and NaN is neither below nor above anything
streamCompare(a, b) ==
    IF IsNaN(a) /\ IsNaN(b) THEN 0
    ELSE IF IsNaN(a) \/ IsNaN(b) THEN 0
    ELSE Sign(Number(a), Number(b))

\* the comparator handed to Array.prototype.sort by sortData ("worker") and
\* by createSortStream ("stream")
RECURSIVE sortComparator(_, _, _, _)
sortComparator(impl, sortColumns, a, b) ==
    IF sortColumns = <<>> THEN 0
    ELSE LET sort == Head(sortColumns)
             comparison == IF impl = "worker"
                           THEN compareForSort(a[sort.column], b[sort.column])
                           ELSE streamCompare(a[sort.column], b[sort.column])
         IN IF comparison # 0
            THEN (IF sort.direction = "desc" THEN -comparison ELSE comparison)
            ELSE sortComparator(impl, Tail(sortColumns), a, b)

Reverse(s) == [i \in 1..Len(s) |-> s[Len(s) + 1 - i]]

\* Array.prototype.sort as V8 runs it on a short array: the leading run is
\* found (and reversed when it is strictly descending), then the other
\* elements are put in place by binary insertion
RECURSIVE CountRun(_, _, _, _, _)
CountRun(impl, sortColumns, s, descending, idx) ==
    IF idx > Len(s) THEN Len(s)
    ELSE LET order == sortComparator(impl, sortColumns, s[idx], s[idx - 1])
         IN IF (descending /\ order >= 0) \/ (~descending /\ order < 0)
            THEN idx - 1
            ELSE CountRun(impl, sortColumns, s, descending, idx + 1)

RECURSIVE BinarySearch(_, _, _, _, _, _)
BinarySearch(impl, sortColumns, s, pivot, left, right) ==
    IF left >= right THEN left
    ELSE LET mid == left + ((right - left) \div 2)
         IN IF sortComparator(impl, sortColumns, pivot, s[mid]) < 0
            THEN BinarySearch(impl, sortColumns, s, pivot, left, mid)
            ELSE BinarySearch(impl, sortColumns, s, pivot, mid + 1, right)

RECURSIVE BinaryInsertionSort(_, _, _, _)
BinaryInsertionSort(impl, sortColumns, s, start) ==
    IF start > Len(s) THEN s
    ELSE LET pivot == s[start]
             at == BinarySearch(impl, sortColumns, s, pivot, 1, start)
             placed == SubSeq(s, 1, at - 1) \o <<pivot>> \o SubSeq(s, at, start - 1)
                       \o SubSeq(s, start + 1, Len(s))
         IN BinaryInsertionSort(impl, sortColumns, placed, start + 1)

ArraySort(impl, sortColumns, s) ==
    IF Len(s) < 2 THEN s
    ELSE LET descending == sortComparator(impl, sortColumns, s[2], s[1]) < 0
             run == CountRun(impl, sortColumns, s, descending, 3)
             made == IF descending
                     THEN Reverse(SubSeq(s, 1, run)) \o SubSeq(s, run + 1, Len(s))
                     ELSE s
         IN BinaryInsertionSort(impl, sortColumns, made, run + 1)

\* the rows that DataProcessorWorker.sortData sends back
sortData(dataset, sortColumns) == ArraySort("worker", sortColumns, dataset)

\* flush() of createSortStream: the rows of every data chunk, sorted, and
\* pushed as one chunk (this.options is undefined on the stream)
sortStream(in, sortColumns) ==
    IF in.error THEN in
    ELSE LET allData == ArraySort("stream", sortColumns, Concat(in.chunks))
         IN [error |-> FALSE, chunks |-> IF allData = <<>> THEN <<>> ELSE <<allData>>]

\* an element as Array.prototype.join writes it: null is the empty text, a
\* number its digits, a text itself
JoinString(v) == IF v = "null" THEN "" ELSE v

\* cols.map(col => row[col]).join('|')
RECURSIVE join(_, _)
join(row, cols) ==
    IF cols = <<>> THEN ""
    ELSE IF Len(cols) = 1 THEN JoinString(row[cols[1]])
    ELSE JoinString(row[Head(cols)]) \o "|" \o join(row, Tail(cols))

\* the groupKey of aggregateData and of createAggregateStream
groupKey(row, groupBy) == IF Len(groupBy) > 0 THEN join(row, groupBy) ELSE "all"

\* agg.alias || `${agg.function}_${agg.column}`
alias(agg) == agg.function \o "_" \o agg.column

Aliases(aggregations) == {alias(aggregations[i]) : i \in 1..Len(aggregations)}

\* the aggregation of a list that writes an alias last
AggregationOf(aggregations, al) ==
    aggregations[CHOOSE i \in 1..Len(aggregations) :
                    /\ alias(aggregations[i]) = al
                    /\ \A j \in (i + 1)..Len(aggregations) : alias(aggregations[j]) # al]

initializeAggregation(func) == 0

\* DataProcessorWorker.updateAggregation ("worker": the count is the count
\* of the group) and the updateAggregation written in the options of the
\* aggregate Transform ("stream": the count is one more than before)
updateAggregation(impl, current, value, func, count) ==
    CASE func = "sum" -> current + (IF IsNaN(value) THEN 0 ELSE Number(value))
      [] func = "count" -> IF impl = "worker" THEN count ELSE current + 1
      [] OTHER -> current

\* the position of a key in the groups Map, 0 when it is not there
GroupIndex(groups, key) ==
    IF \E i \in 1..Len(groups) : groups[i].key = key
    THEN CHOOSE i \in 1..Len(groups) : groups[i].key = key
    ELSE 0

\* one pass of the grouping loop: the group of the row is created when its
\* key is new, and every aggregation of the group is updated
aggregateRow(impl, groups, row, aggregations, groupBy) ==
    LET key == groupKey(row, groupBy)
        created == [key |-> key,
                    count |-> 0,
                    data |-> [group |-> [i \in 1..Len(groupBy) |-> row[groupBy[i]]],
                              values |-> [al \in Aliases(aggregations) |->
                                            initializeAggregation(
                                              AggregationOf(aggregations, al).function)]]]
        all == IF GroupIndex(groups, key) = 0 THEN Append(groups, created) ELSE groups
        at == GroupIndex(all, key)
        group == all[at]
        count == group.count + 1
    IN [all EXCEPT ![at] =
          [key |-> key,
           count |-> count,
           data |-> [group |-> group.data.group,
                     values |-> [al \in Aliases(aggregations) |->
                                   updateAggregation(impl, group.data.values[al],
                                                     row[AggregationOf(aggregations, al).column],
                                                     AggregationOf(aggregations, al).function,
                                                     count)]]]]

RECURSIVE aggregateRows(_, _, _, _, _)
aggregateRows(impl, groups, rows, aggregations, groupBy) ==
    IF rows = <<>> THEN groups
    ELSE aggregateRows(impl, aggregateRow(impl, groups, Head(rows), aggregations, groupBy),
                       Tail(rows), aggregations, groupBy)

\* Array.from(groups.values()).map(group => group.data)
GroupData(groups) == [i \in 1..Len(groups) |-> groups[i].data]

\* the rows that DataProcessorWorker.aggregateData sends back
aggregateData(dataset, aggregations, groupBy) ==
    GroupData(aggregateRows("worker", <<>>, dataset, aggregations, groupBy))

\* the members that `this` has inside transform(): the aggregate stream is
\* made by new Transform({objectMode, transform, flush, initializeAggregation,
\* updateAggregation})
AggregateStreamMembers ==
    {"transform", "flush", "initializeAggregation", "updateAggregation"} \cap StreamOptions

\* transform() of createAggregateStream throws a TypeError on the first row
\* of a data chunk when there is an aggregation to initialize or to update
\* and the stream lacks the member that is called
aggregateThrows(in, aggregations) ==
    /\ aggregations # <<>>
    /\ Concat(in.chunks) # <<>>
    /\ ~({"initializeAggregation", "updateAggregation"} \subseteq AggregateStreamMembers)

\* an aggregate stream fed with the chunks of `in`: flush() pushes the data
\* of the groups as one chunk
aggregateStream(in, aggregations, groupBy) ==
    IF in.error THEN in
    ELSE IF aggregateThrows(in, aggregations) THEN [error |-> TRUE, chunks |-> <<>>]
    ELSE [error |-> FALSE,
          chunks |-> <<GroupData(aggregateRows("stream", <<>>, Concat(in.chunks),
                                               aggregations, groupBy))>>]

\* JSON.stringify of a cell: a number by its digits, a text in quotes, null
jsonCell(v) == IF v \in {"1", "2", "null"} THEN v ELSE "\"" \o v \o "\""

\* JSON.stringify(row) of a row read with the headers a, b
jsonRow(row) == "{\"a\":" \o jsonCell(row["a"]) \o ",\"b\":" \o jsonCell(row["b"]) \o "}"

\* the key of a row in removeDuplicates
duplicateKey(row, columns) == IF Len(columns) > 0 THEN join(row, columns) ELSE jsonRow(row)

RECURSIVE removeLoop(_, _, _, _)
removeLoop(seen, result, rows, columns) ==
    IF rows = <<>> THEN result
    ELSE LET key == duplicateKey(Head(rows), columns)
         IN IF key \notin seen
            THEN removeLoop(seen \cup {key}, Append(result, Head(rows)), Tail(rows), columns)
            ELSE removeLoop(seen, result, Tail(rows), columns)

\* the rows that DataProcessorWorker.removeDuplicates sends back
removeDuplicates(dataset, columns) == removeLoop({}, <<>>, dataset, columns)

\* ---- the messages of the processor executor and the pipelines ------------
Produce(op, error, rows) ==
    /\ procOut' = [op |-> op, error |-> error, rows |-> rows]
    /\ UNCHANGED <<procIn, stream, poolVars, cacheVars>>

\* filter-data with the conditions of A followed by those of B
FilterOnce ==
    Produce("filter", FALSE,
            filterData(procIn.dataset, procIn.conditionsA \o procIn.conditionsB))

\* filter-data with the conditions of A
FilterFirst ==
    Produce("filterA", FALSE, filterData(procIn.dataset, procIn.conditionsA))

\* filter-data with the conditions of B on the result of FilterFirst
FilterSecond ==
    /\ procOut.op = "filterA"
    /\ Produce("filterAB", FALSE, filterData(procOut.rows, procIn.conditionsB))

\* processLargeFile with the operations [filter(A followed by B)]
StreamFilterOnce ==
    LET out == filterStream(Source(procIn.dataset),
                            procIn.conditionsA \o procIn.conditionsB)
    IN Produce("streamFilter", out.error, Concat(out.chunks))

\* processLargeFile with the operations [filter(A), filter(B)]
StreamFilterTwice ==
    LET out == filterStream(filterStream(Source(procIn.dataset), procIn.conditionsA),
                            procIn.conditionsB)
    IN Produce("streamFilterAB", out.error, Concat(out.chunks))

\* compareForSort on the cells a of the first three rows, pair by pair
CompareForSort ==
    LET v == [i \in 1..3 |-> procIn.dataset[i].a]
    IN Produce("compare", FALSE,
               [ab |-> compareForSort(v[1], v[2]), ba |-> compareForSort(v[2], v[1]),
                bc |-> compareForSort(v[2], v[3]), ac |-> compareForSort(v[1], v[3])])

\* sort-data
SortData == Produce("sort", FALSE, sortData(procIn.dataset, procIn.sortColumns))

\* processLargeFile with the operations [sort]
StreamSort ==
    LET out == sortStream(Source(procIn.dataset), procIn.sortColumns)
    IN Produce("streamSort", out.error, Concat(out.chunks))

\* aggregate-data
AggregateData ==
    Produce("aggregate", FALSE,
            aggregateData(procIn.dataset, procIn.aggregations, procIn.groupBy))

\* processLargeFile with the operations [aggregate]
StreamAggregate ==
    LET out == aggregateStream(Source(procIn.dataset), procIn.aggregations, procIn.groupBy)
    IN Produce("streamAggregate", out.error, Concat(out.chunks))

\* remove-duplicates with the groupBy columns of the job as its columns
RemoveDuplicates ==
    Produce("removeDuplicates", FALSE, removeDuplicates(procIn.dataset, procIn.groupBy))

\* ---- the pipeline of processLargeFile ------------------------------------
\* what processExcelInChunks pushes: a data chunk
DataItem(rows) == [type |-> "data", chunk |-> rows]

\* what streamReadCSV pushes: the object of one parsed row, which has no type
RowItem(row) == [type |-> "none", chunk |-> <<row>>]

\* the items that the source stream will push
sourceItems(fileExt, dataset) ==
    IF fileExt = "csv" THEN [i \in 1..Len(dataset) |-> RowItem(dataset[i])]
    ELSE [i \in 1..Len(Chunks(dataset)) |-> DataItem(Chunks(dataset)[i])]

\* stream.push / this.push put the items at the front of the buffer
Pushed_AtFront(buffer, items) == items \o buffer

\* stream.push / this.push: the items join the end of the buffer that the
\* next stream of the pipeline reads
Pushed(buffer, items) == buffer \o items

\* operations.forEach of processLargeFile: the switch on operation.type
\* makes a stream for 'filter', 'sort' and 'aggregate' and has no other case
HasStream(type) == type \in {"filter", "sort", "aggregate"}

operationStreams(operations) == SelectSeq(operations, HasStream)

\* processLargeFile: the source stream, one stream per operation and the
\* write stream; buffers[k] and ended[k] are the input of stream k, and
\* held[k] is what the closure of stream k has collected
\* Math.round((part / whole) * 100)
roundPercent(part, whole) == (200 * part + whole) \div (2 * whole)

\* the bytes of the line of a row in a .csv file: the cells, a comma, a newline
csvLineBytes(row) == Len(row.a) + 1 + Len(row.b) + 1

\* stats.size of a .csv file: the header line a,b and the line of every row
RECURSIVE csvFileSize(_)
csvFileSize(dataset) ==
    IF dataset = <<>> THEN csvLineBytes([a |-> "a", b |-> "b"])
    ELSE csvLineBytes(Head(dataset)) + csvFileSize(Tail(dataset))

\* Buffer.byteLength(JSON.stringify(chunk)) of a parsed row {"a":"..","b":".."}
jsonRowBytes(row) == 15 + Len(row.a) + Len(row.b)

\* getStats().progress
getStatsProgress(S) ==
    IF S.totalRows > 0 THEN roundPercent(S.processedRows, S.totalRows) ELSE 0

\* the counters of the StreamProcessor (S is its state before the call) are
\* not reset by processLargeFile: streamReadExcel sets totalRows, while
\* streamReadCSV takes the size of the file and starts processedBytes at 0
NewStream(S, job) ==
    [source |-> sourceItems(job.fileExt, job.dataset),
     processedRows |-> S.processedRows,
     totalRows |-> IF job.fileExt = "csv" THEN S.totalRows ELSE Len(job.dataset),
     processedBytes |-> 0,
     fileSize |-> IF job.fileExt = "csv" THEN csvFileSize(job.dataset) ELSE 0,
     progress |-> S.progress,
     jobs |-> S.jobs + 1,
     stages |-> operationStreams(job.operations),
     buffers |-> [k \in 1..(Len(operationStreams(job.operations)) + 1) |-> <<>>],
     ended |-> [k \in 1..(Len(operationStreams(job.operations)) + 1) |-> FALSE],
     held |-> [k \in 1..Len(operationStreams(job.operations)) |-> <<>>],
     sink |-> <<>>,
     error |-> FALSE,
     finished |-> FALSE]

DataItems(chunks) == [i \in 1..Len(chunks) |-> DataItem(chunks[i])]

\* transform() of the stream of an operation on one item
stageTransform(job, op, held, item) ==
    CASE op = "filter" ->
            IF item.type = "data"
            THEN LET one == filterTransform(item.chunk, job.conditionsA)
                 IN [error |-> one.error, out |-> DataItems(one.chunks), held |-> held]
            ELSE [error |-> FALSE, out |-> <<item>>, held |-> held]
      [] op = "sort" ->
            [error |-> FALSE, out |-> <<>>,
             held |-> IF item.type = "data" THEN held \o item.chunk ELSE held]
      [] op = "aggregate" ->
            IF item.type # "data" THEN [error |-> FALSE, out |-> <<>>, held |-> held]
            ELSE IF aggregateThrows([error |-> FALSE, chunks |-> <<item.chunk>>],
                                    job.aggregations)
            THEN [error |-> TRUE, out |-> <<>>, held |-> held]
            ELSE [error |-> FALSE, out |-> <<>>,
                  held |-> aggregateRows("stream", held, item.chunk,
                                         job.aggregations, job.groupBy)]

\* flush() of the stream of an operation
stageFlush(job, op, held) ==
    CASE op = "filter" -> <<>>
      [] op = "sort" ->
            DataItems(sortStream([error |-> FALSE, chunks |-> <<held>>],
                                 job.sortColumns).chunks)
      [] op = "aggregate" -> <<DataItem(GroupData(held))>>

\* pipeline() destroys every stream when one of them fails
Destroyed(S) ==
    [S EXCEPT !.error = TRUE,
              !.source = <<>>,
              !.buffers = [k \in DOMAIN S.buffers |-> <<>>]]

SetStream(S) ==
    /\ stream' = S
    /\ UNCHANGED <<procIn, procOut, poolVars, cacheVars>>

Flowing == stream.buffers # <<>> /\ ~stream.error /\ ~stream.finished

\* processLargeFile(filePath, operations, outputPath)
ProcessLargeFile ==
    /\ stream = NoStream \/ stream.finished \/ stream.error
    /\ stream.jobs < MaxJobs
    /\ SetStream(NewStream(stream, procIn))

\* one pass of the loop of processExcelInChunks, or one row of the parser
SourcePush ==
    /\ Flowing
    /\ stream.source # <<>>
    /\ LET item == Head(stream.source)
           rows == stream.processedRows + Len(item.chunk)
           bytes == stream.processedBytes + jsonRowBytes(item.chunk[1])
       IN IF item.type = "data"
          THEN SetStream([stream EXCEPT !.source = Tail(@),
                                        !.buffers[1] = Pushed(@, <<item>>),
                                        !.processedRows = rows,
                                        !.progress = roundPercent(rows, stream.totalRows)])
          ELSE SetStream([stream EXCEPT !.source = Tail(@),
                                        !.buffers[1] = Pushed(@, <<item>>),
                                        !.processedBytes = bytes,
                                        !.progress = roundPercent(bytes, stream.fileSize)])

\* stream.push(null)
SourceEnd ==
    /\ Flowing
    /\ stream.source = <<>>
    /\ ~stream.ended[1]
    /\ SetStream([stream EXCEPT !.ended[1] = TRUE])

\* the stream of operation k transforms the next item of its buffer
StageTransformOf(k) ==
    /\ Flowing
    /\ stream.buffers[k] # <<>>
    /\ LET did == stageTransform(procIn, stream.stages[k], stream.held[k],
                                 Head(stream.buffers[k]))
       IN IF did.error THEN SetStream(Destroyed(stream))
          ELSE SetStream([stream EXCEPT !.buffers[k] = Tail(@),
                                        !.buffers[k + 1] = Pushed(@, did.out),
                                        !.held[k] = did.held])

StageTransform == \E k \in 1..Len(stream.stages) : StageTransformOf(k)

\* the stream of operation k has read all its input: flush(), then the end
\* of its output
StageFlushOf(k) ==
    /\ Flowing
    /\ stream.buffers[k] = <<>>
    /\ stream.ended[k]
    /\ ~stream.ended[k + 1]
    /\ SetStream([stream EXCEPT
                    !.buffers[k + 1] =
                        Pushed(@, stageFlush(procIn, stream.stages[k], stream.held[k])),
                    !.ended[k + 1] = TRUE])

StageFlush == \E k \in 1..Len(stream.stages) : StageFlushOf(k)

\* write() of the write stream: the rows of a data chunk are written
SinkWrite ==
    /\ Flowing
    /\ stream.buffers[Len(stream.buffers)] # <<>>
    /\ LET n == Len(stream.buffers)
           item == Head(stream.buffers[n])
       IN SetStream([stream EXCEPT
                       !.buffers[n] = Tail(@),
                       !.sink = IF item.type = "data" THEN @ \o item.chunk ELSE @])

\* final() of the write stream
SinkFinal ==
    /\ Flowing
    /\ stream.buffers[Len(stream.buffers)] = <<>>
    /\ stream.ended[Len(stream.buffers)]
    /\ SetStream([stream EXCEPT !.finished = TRUE])

\* ---- specifications -----------------------------------------------------
\* scheduling: tasks of one kind and every priority, executors that answer
\* each task with a result
NextSched ==
    \/ Initialize
    \/ ExecutePriorityTask
    \/ ResumeAssign
    \/ WorkerResult

SpecSched == Init /\ [][NextSched]_vars

\* scheduling of tasks of both kinds, executors that answer
NextKinds ==
    \/ Initialize
    \/ ExecuteKindTask
    \/ ResumeAssign
    \/ WorkerResult

SpecKinds == Init /\ [][NextKinds]_vars

\* scheduling with executors that answer with a result or with an error
NextReply ==
    \/ NextSched
    \/ WorkerTaskError

SpecReply == Init /\ [][NextReply]_vars

\* the whole life cycle, with tasks submitted with the default options
Next ==
    \/ Initialize
    \/ ExecuteDefaultTask
    \/ ResumeAssign
    \/ WorkerResult
    \/ WorkerTaskError
    \/ WorkerErrorEvent
    \/ WorkerExitEvent
    \/ IdleTimeout
    \/ Shutdown
    \/ ShutdownPoll
    \/ ShutdownFinish

Spec == Init /\ [][Next]_vars

\* the cache executor under entries of every priority, compressed or not,
\* that do not expire
NextEvict ==
    \/ CacheSetPriority
    \/ CacheGet
    \/ CacheDelete
    \/ CacheInfo
    \/ CacheCompress
    \/ Tick

SpecEvict == Init /\ [][NextEvict]_vars

\* the cache executor under entries that expire, in an environment that can
\* fail a write and lose a file
NextCache ==
    \/ CacheSetTtl
    \/ CacheSetFails
    \/ CacheGet
    \/ CacheDelete
    \/ CacheClear
    \/ CacheInfo
    \/ CacheCleanup
    \/ CacheOptimize
    \/ Tick
    \/ FileLost

SpecCache == Init /\ [][NextCache]_vars

\* the cache directories that an earlier run has left: an empty one, and
\* one with one entry
PriorDirectories ==
    LET D == [cacheIndex |-> <<>>, currentCacheSize |-> 0,
              files |-> [c \in CacheKeys |-> NoFile], savedIndex |-> <<>>,
              now |-> 0, lastReply |-> NoReply, inflight |-> NoRace]
    IN {D} \cup {handleMessage(D, m) : m \in {x \in Messages : x.op = "set"}}

\* a cache executor is constructed on a cache directory and handles
\* messages while its initializeCache runs
InitStartup ==
    /\ PoolInit
    /\ ProcInit
    /\ \E D \in PriorDirectories :
          /\ cacheIndex = CacheWorker(D).cacheIndex
          /\ currentCacheSize = CacheWorker(D).currentCacheSize
          /\ files = D.files
          /\ savedIndex = D.savedIndex
          /\ now = 0
          /\ lastReply = NoReply
          /\ inflight = CacheWorker(D).inflight

NextStartup ==
    \/ InitializeStep
    \/ MessageDuringInit
    \/ HandlerStep

SpecStartup == InitStartup /\ [][NextStartup]_vars

\* entries stored uncompressed, and the maintenance messages
NextMaintain ==
    \/ CacheSetPlain
    \/ CacheGet
    \/ CacheOptimize
    \/ CacheCompress
    \/ Tick
    \/ FileLost

SpecMaintain == Init /\ [][NextMaintain]_vars

\* two messages for one key whose handlers overlap, after sets handled alone
NextOverlap ==
    \/ SetBefore
    \/ TickBefore
    \/ MessageArrives
    \/ HandlerStep

SpecOverlap == Init /\ [][NextOverlap]_vars

\* a cache executor that is stopped and started again at any moment, on a
\* directory that can lose a file
NextRestart ==
    \/ CacheSetTtl
    \/ CacheGet
    \/ CacheDelete
    \/ Tick
    \/ FileLost
    \/ CacheRestart

SpecRestart == Init /\ [][NextRestart]_vars

\* filter jobs: every dataset and every two condition lists
InitFilter ==
    /\ PoolInit
    /\ CacheInit
    /\ procIn \in {[NoJob EXCEPT !.dataset = d, !.conditionsA = a, !.conditionsB = b] :
                     d \in Datasets(Cells, {"1"}, MaxFilterRows),
                     a \in ConditionLists, b \in ConditionLists}
    /\ procOut = NoOutput
    /\ stream = NoStream

NextFilter ==
    \/ FilterOnce
    \/ FilterFirst
    \/ FilterSecond
    \/ StreamFilterOnce
    \/ StreamFilterTwice

SpecFilter == InitFilter /\ [][NextFilter]_vars

\* every three cell values, for the comparisons of a sort
InitCompare ==
    /\ PoolInit
    /\ CacheInit
    /\ procIn \in {[NoJob EXCEPT !.dataset = d] :
                     d \in {x \in Datasets(MixedCells, {"1"}, 3) : Len(x) = 3}}
    /\ procOut = NoOutput
    /\ stream = NoStream

NextCompare == CompareForSort

SpecCompare == InitCompare /\ [][NextCompare]_vars

\* sort jobs: every dataset and every list of sort columns
InitSort ==
    /\ PoolInit
    /\ CacheInit
    /\ procIn \in {[NoJob EXCEPT !.dataset = d, !.sortColumns = c] :
                     d \in Datasets(Cells, NumberCells, MaxSortRows),
                     c \in SortColumns}
    /\ procOut = NoOutput
    /\ stream = NoStream

NextSort ==
    \/ SortData
    \/ StreamSort

SpecSort == InitSort /\ [][NextSort]_vars

\* aggregate and remove-duplicates jobs: every dataset, every groupBy and
\* every list of aggregations
InitAggregate ==
    /\ PoolInit
    /\ CacheInit
    /\ procIn \in {[NoJob EXCEPT !.dataset = d, !.groupBy = g, !.aggregations = a] :
                     d \in Datasets(GroupCells, ValueCells, MaxGroupRows),
                     g \in GroupBys, a \in AggregationLists}
    /\ procOut = NoOutput
    /\ stream = NoStream

NextAggregate ==
    \/ AggregateData
    \/ StreamAggregate
    \/ RemoveDuplicates

SpecAggregate == InitAggregate /\ [][NextAggregate]_vars

\* streaming jobs: every dataset, both file formats, every list of
\* operations, with and without a condition and aggregations
InitStream ==
    /\ PoolInit
    /\ CacheInit
    /\ procIn \in {[NoJob EXCEPT !.dataset = d, !.fileExt = e, !.operations = o,
                                 !.conditionsA = c, !.aggregations = a,
                                 !.groupBy = <<"a">>,
                                 !.sortColumns = <<[column |-> "a", direction |-> "asc"]>>] :
                     d \in Datasets(NumberCells, {"1"}, MaxStreamRows),
                     e \in FileExts, o \in OperationLists,
                     c \in {<<>>, <<[column |-> "a", operator |-> "equals", value |-> "1"]>>},
                     a \in AggregationLists}
    /\ procOut = NoOutput
    /\ stream = NoStream

NextStream ==
    \/ ProcessLargeFile
    \/ SourcePush
    \/ SourceEnd
    \/ StageTransform
    \/ StageFlush
    \/ SinkWrite
    \/ SinkFinal

SpecStream == InitStream /\ [][NextStream]_vars

TypeOK ==
    /\ workers \subseteq WorkerIds
    /\ busyWorkers \subseteq WorkerIds
    /\ nextWorkerId \in 1..(MaxWorkerId + 1)
    /\ nextTask \in 1..(MaxTasks + 1)

\* ---- observations used by the properties --------------------------------
Unsettled(t) == tstate[t] = "pending"

Owners(t) == {w \in workers : currentTask[w] = t}

\* no reply is in flight and no assignment pass is suspended
Quiescent == pending = <<>> /\ \A w \in WorkerIds : inbox[w] = <<>>

\* ---- C1 -----------------------------------------------------------------
\* C1: a task that has been posted to an executor and is not yet settled is
\* the currentTask of exactly one executor, and no executor has been sent a
\* second task while an earlier task it was sent is still unsettled.
C1_OneOwnerPerTask ==
    /\ \A t \in TaskIds :
          (Unsettled(t) /\ \E w \in WorkerIds : t \in sent[w])
             => Cardinality(Owners(t)) = 1
    /\ \A w \in WorkerIds : Cardinality(sent[w]) <= 1

\* ---- C2 -----------------------------------------------------------------
\* C2: the number of executors registered in the pool (workers.size) is at
\* most options.maxWorkers in every reachable state.
C2_PoolSizeBounded == Cardinality(workers) <= maxWorkers

\* ---- C3 -----------------------------------------------------------------
\* C3: with N > M tasks of one kind submitted to a pool capped at M and
\* executors that answer every task with a result, never more than M
\* executors are busy and, once nothing is in flight any more, every one of
\* the N promises has resolved.
C3_AllTasksResolve ==
    /\ Cardinality(busyWorkers) <= maxWorkers
    /\ (MaxTasks > maxWorkers /\ nextTask > MaxTasks /\ Quiescent)
          => \A t \in TaskIds : tstate[t] = "resolved"

\* ---- C4 -----------------------------------------------------------------
\* C4: whenever a task is handed to an executor, no task still in the queue
\* has a strictly higher priority, and none of the same priority was
\* submitted earlier (task ids grow with submission).
C4_PriorityThenFifo ==
    [][\A w \in WorkerIds :
          (currentTask'[w] # NoTask /\ currentTask'[w] # currentTask[w]) =>
             \A i \in 1..Len(taskQueue') :
                LET t == currentTask'[w]
                    q == taskQueue'[i]
                IN q # t =>
                     /\ priorityOrder(tprio'[q]) <= priorityOrder(tprio'[t])
                     /\ priorityOrder(tprio'[q]) = priorityOrder(tprio'[t])
                           => q > t]_vars

\* ---- C5 -----------------------------------------------------------------
\* what a reply with the id of the executor's current task must leave behind
C5_Settled(w, how) ==
    LET m == Head(inbox[w])
        idle == /\ ~busy'[w] /\ currentTask'[w] = NoTask
                /\ w \notin busyWorkers' /\ w \in SeqSet(availableWorkers')
    IN /\ tstate'[m] = how
       /\ IF taskQueue = <<>>
          THEN idle /\ taskQueue' = <<>>
          ELSE /\ taskQueue' = Tail(taskQueue)
               /\ \E w2 \in WorkerIds :
                     /\ currentTask'[w2] = Head(taskQueue)
                     /\ busy'[w2] /\ w2 \in busyWorkers'
                     /\ w2 \notin SeqSet(availableWorkers')
                     /\ w2 # w => idle

\* what a reply with any other id must leave behind: only the message is gone
C5_Ignored(w) ==
    /\ inbox' = [inbox EXCEPT ![w] = Tail(@)]
    /\ UNCHANGED <<workers, availableWorkers, busyWorkers, taskQueue,
                   nextWorkerId, isShuttingDown, wtype, busy, currentTask,
                   idleTimer, thread, sent, pending, nextTask, ttype, tprio,
                   tstate, settles, shutdownPc, initCount, crashRejects>>

C5_Reply(w, how) ==
    IF currentTask[w] = Head(inbox[w]) THEN C5_Settled(w, how)
    ELSE C5_Ignored(w)

\* C5: a 'result' or 'error' message whose id is the id of the executor's
\* currentTask resolves or rejects that task, leaves the executor idle and
\* available, and assigns the head of a non-empty queue in the same step; a
\* message with any other id changes no task and no executor.
C5_ReplyCorrelatedById ==
    [][\A w \in WorkerIds :
          /\ WorkerResultOf(w) => C5_Reply(w, "resolved")
          /\ WorkerTaskErrorOf(w) => C5_Reply(w, "rejected")]_vars

\* ---- C6 -----------------------------------------------------------------
\* C6: when an executor that failed on its own exits with a non-zero code
\* while it holds a currentTask, that task's promise is rejected.
C6_CrashRejectsHeldTask ==
    [][\A w \in WorkerIds :
          (/\ thread[w] \in {"running", "errored"}
           /\ currentTask[w] # NoTask
           /\ WorkerExitOf(w, 1))
             => tstate'[currentTask[w]] = "rejected"]_vars

\* ---- C7 -----------------------------------------------------------------
\* the pool was initialised, ran one task, and the one executor that held it
\* raised 'error' and then exited; nothing else happened to the pool
C7_OneKillMidTask ==
    /\ initCount = minWorkers /\ nextTask = 2 /\ pending = <<>>
    /\ ~isShuttingDown
    /\ crashRejects >= 1
    /\ Cardinality({w \in WorkerIds : thread[w] = "crashed"}) = 1
    /\ \A w \in WorkerIds : thread[w] \in {"none", "running", "crashed"}
    /\ workers = {w \in WorkerIds : thread[w] = "running"}

\* C7: killing the one busy executor of a pool at its minimum size rejects
\* exactly one task, and after the replacement the pool has the size it had
\* before (one net replacement).
C7_OneCrashOneReplacement ==
    C7_OneKillMidTask =>
       /\ crashRejects = 1
       /\ Cardinality(workers) = minWorkers

\* ---- C8 -----------------------------------------------------------------
\* C8: after an executor crashed and its replacement is idle in a pool that is
\* not shutting down, queued tasks do not stay in the queue once nothing is
\* in flight: they are assigned without a further submission.
C8_QueueDrainsAfterCrash ==
    (/\ Crashed # {} /\ ~isShuttingDown
     /\ \A w \in WorkerIds : thread[w] # "errored"
     /\ availableWorkers # <<>>
     /\ Quiescent)
       => taskQueue = <<>>

\* ---- C9 -----------------------------------------------------------------
\* C9: once isShuttingDown is set, a task submitted through executeTask is
\* neither enqueued nor assigned to an executor.
C9_NoIntakeAfterShutdown ==
    [][(isShuttingDown /\ nextTask' = nextTask + 1) =>
          /\ nextTask \notin SeqSet(taskQueue')
          /\ \A w \in WorkerIds : currentTask'[w] # nextTask]_vars

\* ---- C10 ----------------------------------------------------------------
\* C10: shutdown() terminates no executor while an executor is busy, and when
\* it completes the pool has no executors and every task that was still
\* queued has had its promise rejected.
C10_ShutdownDrainsAndRejects ==
    [][/\ (\E w \in WorkerIds :
              thread[w] # "terminating" /\ thread'[w] = "terminating")
          => busyWorkers = {}
       /\ (shutdownPc = "terminating" /\ shutdownPc' = "done")
          => /\ workers' = {}
             /\ \A t \in SeqSet(taskQueue) : tstate'[t] = "rejected"]_vars

\* ---- C11 ----------------------------------------------------------------
\* C11: a cache-set that reports success, followed immediately by a cache-get
\* of the same key (the entry's ttl has not elapsed), returns found = true and
\* the value that was set, whatever the value, the compression, the priority
\* and the fill of the cache before the set.
C11_SetThenGet ==
    [][\A key \in Keys, value \in Values, compress \in BOOLEAN,
          priority \in Priorities :
          (/\ CacheSetWith(key, value, DefaultTtl, compress, priority)
           /\ lastReply'.type = "result")
          => LET r == getCacheData(CurCache', key).lastReply
             IN r.type = "result" /\ r.found /\ r.data = value]_vars

\* ---- C12 ----------------------------------------------------------------
\* C12: a cache-get of a key whose entry is older than its ttl answers
\* found = false and removes the entry: afterwards the key is not in the
\* index, its file is gone, and the running size total is lower by the size
\* of the entry.
C12_ExpiredGetRemoves ==
    [][\A key \in Keys :
          LET c == generateCacheKey(key) IN
          (/\ CacheGetOf(key)
           /\ IndexHas(cacheIndex, c)
           /\ Expired(CurCache, IndexGet(cacheIndex, c)))
          => /\ lastReply'.type = "result" /\ ~lastReply'.found
             /\ ~IndexHas(cacheIndex', c)
             /\ ~files'[c].exists
             /\ currentCacheSize' = currentCacheSize - IndexGet(cacheIndex, c).size]_vars

\* ---- C13 ----------------------------------------------------------------
\* C13: after a cache-clear without a pattern, from any reachable state of
\* the cache, cache-info reports totalEntries = 0 and totalSize = 0, and a
\* second clear leaves the index, the files and the size total as they are.
C13_ClearEmpties ==
    lastReply.op = "clear" =>
        LET info == getCacheInfo(CurCache).lastReply
            again == clearCache(CurCache)
        IN /\ lastReply.type = "result"
           /\ info.totalEntries = 0 /\ info.totalSize = 0
           /\ again.cacheIndex = cacheIndex
           /\ again.files = files
           /\ again.currentCacheSize = currentCacheSize
           /\ again.savedIndex = savedIndex

\* a clear has removed files and replied
C13_ClearedSomething == lastReply.op = "clear" /\ lastReply.deletedCount > 0

\* ---- C14 ----------------------------------------------------------------
\* an entry that eviction has to delete before d: strictly lower priority
\* (low < normal < high), or the same priority and an older timestamp
C14_Before(k, d) ==
    \/ evictOrder(k.priority) < evictOrder(d.priority)
    \/ k.priority = d.priority /\ k.timestamp < d.timestamp

\* C14: the eviction run by a cache-set never deletes an entry while an entry
\* of strictly lower priority, or of the same priority and an older
\* timestamp, stays in the index: what one evict() deletes is a prefix of the
\* entries ordered by (priority ascending, timestamp ascending).  Stated of
\* every cache-set that the cache can receive in the current state.
C14_EvictsLowestFirst ==
    \A key \in Keys, value \in Values, compress \in BOOLEAN,
       priority \in Priorities :
        LET W == setCacheWrite(CurCache, key, value, DefaultTtl, compress, priority)
            before == SeqSet(W.cacheIndex)
            kept == SeqSet(evictOldCache(W).cacheIndex)
        IN W.currentCacheSize > maxCacheSize
           => \A d \in before \ kept, k \in kept : ~C14_Before(k, d)

\* a cache-set has evicted the entry it wrote and kept another one
C14_EvictedOneOfTwo ==
    /\ lastReply.op = "set"
    /\ ~IndexHas(cacheIndex, generateCacheKey(lastReply.key))
    /\ Len(cacheIndex) = 1

\* ---- C15 ----------------------------------------------------------------
\* C15: whenever the evict() run by a cache-set returns, the total size the
\* cache reports is at most the ceiling maxCacheSize, repeated sets of one
\* key included; so after every completed cache-set the reported total is at
\* most maxCacheSize.
C15_TotalWithinCeiling ==
    /\ \A key \in Keys, value \in Values, compress \in BOOLEAN,
          priority \in Priorities :
           LET W == setCacheWrite(CurCache, key, value, DefaultTtl, compress, priority)
           IN W.currentCacheSize > maxCacheSize
              => evictOldCache(W).currentCacheSize <= maxCacheSize
    /\ (lastReply.op = "set" /\ lastReply.type = "result")
       => getCacheInfo(CurCache).lastReply.totalSize <= maxCacheSize

\* a cache-set has evicted every entry and the total is still above the
\* target of 70%
C15_EvictedAll ==
    /\ lastReply.op = "set"
    /\ cacheIndex = <<>>
    /\ ~AtTarget(CurCache)

\* ---- C16 ----------------------------------------------------------------
\* C16: a cache-get whose file is present but cannot be decompressed or
\* parsed never answers with an error: it answers found = false and the
\* entry leaves the index.
C16_CorruptReadIsMiss ==
    [][\A key \in Keys :
          LET c == generateCacheKey(key) IN
          (/\ CacheGetOf(key)
           /\ IndexHas(cacheIndex, c)
           /\ files[c].exists
           /\ ~Readable(IndexGet(cacheIndex, c), files[c]))
          => /\ lastReply'.type = "result" /\ ~lastReply'.found
             /\ ~IndexHas(cacheIndex', c)]_vars

\* ---- C17 ----------------------------------------------------------------
\* C17: a cache-get of a key that is in the index but whose file is missing
\* answers found = false and removes the key from the index, so that the next
\* cache-get of the key is a plain index miss; the index keeps no entry that
\* an access has found to have no file.
C17_LostFileIsDropped ==
    [][\A key \in Keys :
          LET c == generateCacheKey(key) IN
          (/\ lastReply'.op = "get"
           /\ IndexHas(cacheIndex, c)
           /\ ~files[c].exists
           /\ CacheGetOf(key))
          => /\ lastReply'.type = "result" /\ ~lastReply'.found
             /\ ~IndexHas(cacheIndex', c)
             /\ ~IndexHas(savedIndex', c)
             /\ getCacheData(CurCache', key).lastReply.reason = "Cache miss"]_vars

\* a cache-get has found that the file of an unexpired entry is missing
C17_FoundNoFile ==
    lastReply.op = "get" /\ lastReply.reason = "Cache file not found"

\* ---- C18 ----------------------------------------------------------------
\* C18: when the file write of a cache-set fails, the caller receives an
\* error, and the in-memory index, the persisted index and the running size
\* total are exactly what they were before the set.
C18_FailedWriteKeepsIndex ==
    [][\A key \in Keys :
          (lastReply'.op = "set" /\ CacheSetFailsOf(key))
          => /\ lastReply'.type = "error"
             /\ cacheIndex' = cacheIndex
             /\ savedIndex' = savedIndex
             /\ currentCacheSize' = currentCacheSize]_vars

\* a cache-set of an indexed key has failed while writing and left the file
\* of the entry empty
C18_FailedOverwrite ==
    /\ lastReply.op = "set" /\ lastReply.type = "error"
    /\ IndexHas(cacheIndex, generateCacheKey(lastReply.key))
    /\ files[generateCacheKey(lastReply.key)] = Truncated

\* ---- C19 ----------------------------------------------------------------
\* C19: filtering a dataset by A and then filtering the result by B yields
\* the same rows in the same order as filtering it once by A followed by B,
\* and a row passes a filter iff it satisfies every condition of the list;
\* for the filter of the processor executor and for the filter stage of the
\* stream processor.
C19_FilterComposes ==
    LET D == procIn.dataset
        AB == procIn.conditionsA \o procIn.conditionsB
    IN /\ procOut.op = "filterAB" => procOut.rows = filterData(D, AB)
       /\ procOut.op = "filter"
          => procOut.rows = SelectSeq(D, LAMBDA row :
                               \A i \in 1..Len(AB) : evaluateCondition(row, AB[i]))
       /\ procOut.op = "streamFilterAB"
          => procOut.rows = Concat(filterStream(Source(D), AB).chunks)
       /\ procOut.op \in {"streamFilter", "streamFilterAB"}
          => /\ ~procOut.error
             /\ procOut.rows = SelectSeq(D, LAMBDA row :
                                  \A i \in 1..Len(AB) : streamEvaluateCondition(row, AB[i]))

\* ---- C20 ----------------------------------------------------------------
\* the rows of out are the rows of the dataset, each once
C20_Permutation(out, dataset) ==
    /\ Len(out) = Len(dataset)
    /\ \A i \in 1..Len(out) : out[i].id \in 1..Len(dataset) /\ out[i] = dataset[out[i].id]
    /\ \A i, j \in 1..Len(out) : out[i].id = out[j].id => i = j

\* no row stands before a row that the sort columns put strictly before it,
\* and rows that compare equal on every sort column keep their input order
C20_OrderedAndStable(impl, out) ==
    \A i, j \in 1..Len(out) :
        i < j => LET c == sortComparator(impl, procIn.sortColumns, out[i], out[j])
                 IN c <= 0 /\ (c = 0 => out[i].id < out[j].id)

\* C20: the sort operation returns a permutation of its input rows that is
\* ordered by the sort columns taken left to right, each in its own
\* direction, and in which rows that compare equal on every sort column keep
\* their original relative order; for the sort of the processor executor and
\* for the sort stage of the stream processor.
C20_SortIsStableOrder ==
    /\ procOut.op = "sort"
       => /\ C20_Permutation(procOut.rows, procIn.dataset)
          /\ C20_OrderedAndStable("worker", procOut.rows)
    /\ procOut.op = "streamSort"
       => /\ ~procOut.error
          /\ C20_Permutation(procOut.rows, procIn.dataset)
          /\ C20_OrderedAndStable("stream", procOut.rows)

\* ---- C21 ----------------------------------------------------------------
\* the values of a row in the given columns
C21_Tuple(row, cols) == [i \in 1..Len(cols) |-> row[cols[i]]]

C21_Tuples(dataset, cols) == {C21_Tuple(dataset[i], cols) : i \in 1..Len(dataset)}

\* C21: aggregation emits exactly one output row per group, and two input
\* rows fall into the same group iff they have equal values in every groupBy
\* column: there are as many output rows as distinct tuples of groupBy
\* values, each tuple has one output row, and a count aggregation counts the
\* input rows of that tuple; for the aggregation of the processor executor
\* and for the aggregate stage of the stream processor.
C21_OneRowPerGroup ==
    procOut.op \in {"aggregate", "streamAggregate"}
    => LET D == procIn.dataset
           G == procIn.groupBy
           out == procOut.rows
       IN /\ ~procOut.error
          /\ Len(out) = Cardinality(C21_Tuples(D, G))
          /\ \A t \in C21_Tuples(D, G) :
                \E i \in 1..Len(out) :
                   /\ out[i].group = t
                   /\ \A j \in 1..Len(out) : out[j].group = t => j = i
                   /\ "count_b" \in DOMAIN out[i].values
                      => out[i].values["count_b"]
                           = Cardinality({k \in 1..Len(D) : C21_Tuple(D[k], G) = t})

\* ---- C22 ----------------------------------------------------------------
\* the sum of a sequence of numbers
RECURSIVE C22_Total(_)
C22_Total(s) == IF s = <<>> THEN 0 ELSE Head(s) + C22_Total(Tail(s))

\* C22: for a sum aggregation over a numeric column, the per-group sums of
\* the emitted groups add up to the sum of the column over all input rows,
\* however the rows are split into chunks; for the aggregation of the
\* processor executor and for the aggregate stage of the stream processor.
C22_GroupSumsAddUp ==
    /\ procOut.op \in {"aggregate", "streamAggregate"}
    /\ procIn.aggregations # <<>>
    /\ \A i \in 1..Len(procIn.dataset) : procIn.dataset[i].b \in NumberCells
    => /\ ~procOut.error
       /\ C22_Total([i \in 1..Len(procOut.rows) |-> procOut.rows[i].values["sum_b"]])
            = C22_Total([i \in 1..Len(procIn.dataset) |-> Number(procIn.dataset[i].b)])

\* ---- C23 ----------------------------------------------------------------
\* the key of a row: the tuple of its values in the key columns, or the
\* whole row when no columns are given
C23_Key(row) == C21_Tuple(row, IF procIn.groupBy = <<>> THEN <<"a", "b">> ELSE procIn.groupBy)

\* C23: remove-duplicates returns, in input order, exactly the first row of
\* each distinct key: no two output rows share a key, and a row is dropped
\* only if an earlier row has the same key-column values.
C23_FirstOfEachKey ==
    procOut.op = "removeDuplicates"
    => LET D == procIn.dataset
           out == procOut.rows
           First == {i \in 1..Len(D) : \A j \in 1..(i - 1) : C23_Key(D[j]) # C23_Key(D[i])}
       IN /\ \A i \in 1..Len(out) : out[i].id \in First /\ out[i] = D[out[i].id]
          /\ \A i \in First : \E j \in 1..Len(out) : out[j].id = i
          /\ \A i, j \in 1..Len(out) : i < j => out[i].id < out[j].id

\* ---- C24 ----------------------------------------------------------------
\* where a row stood in the source: its own position, or for the row of a
\* group the position of the first source row with the values of the group
C24_Position(row) ==
    IF "id" \in DOMAIN row THEN row.id
    ELSE CHOOSE i \in 1..Len(procIn.dataset) :
            /\ C21_Tuple(procIn.dataset[i], procIn.groupBy) = row.group
            /\ \A j \in 1..(i - 1) :
                  C21_Tuple(procIn.dataset[j], procIn.groupBy) # row.group

C24_InOrder(rows) ==
    \A i, j \in 1..Len(rows) : i < j => C24_Position(rows[i]) < C24_Position(rows[j])

C24_Rows(buffer) == Concat([i \in 1..Len(buffer) |-> buffer[i].chunk])

\* C24: in a streaming job without a sort stage, the rows that reach the
\* sink stand in the order in which they were read from the source: every
\* stage emits chunks in the order it received them and keeps the order of
\* the rows inside a chunk.
C24_SourceOrderKept ==
    (\A k \in 1..Len(procIn.operations) : procIn.operations[k] # "sort")
    => /\ C24_InOrder(stream.sink)
       /\ \A k \in 1..Len(stream.buffers) : C24_InOrder(C24_Rows(stream.buffers[k]))
       /\ stream.buffers # <<>>
          => C24_InOrder(stream.sink \o C24_Rows(stream.buffers[Len(stream.buffers)]))

\* a file of more than one chunk has been written to the sink by a job
\* without a sort stage
C24_WroteTwoChunks ==
    /\ stream.finished
    /\ \A k \in 1..Len(procIn.operations) : procIn.operations[k] # "sort"
    /\ Len(stream.sink) > chunkSize

\* ---- C25 ----------------------------------------------------------------
\* C25: a task is only ever assigned to an executor whose kind equals the
\* kind of the task: the scheduler never posts a task to an idle executor
\* of a different kind.
C25_KindMatches ==
    \A w \in WorkerIds : \A t \in sent[w] : wtype[w] = ttype[t]

\* ---- C28 ----------------------------------------------------------------
\* the cache directory of an executor: createWorker passes no cacheDir in
\* workerData, so every cache executor takes the default directory
cacheDir(w) == "tmpdir/p-excel-cache"

\* the executors of kind 'cache' whose thread runs
C28_LiveCacheExecutors == {w \in workers : wtype[w] = "cache" /\ thread[w] = "running"}

\* C28: at every moment at most one cache executor operates on a given
\* cache directory: the scheduler never has two live executors of kind
\* 'cache' that share the same cacheDir.
C28_OneCacheExecutorPerDir ==
    \A v, w \in C28_LiveCacheExecutors : cacheDir(v) = cacheDir(w) => v = w

\* ---- C26 ----------------------------------------------------------------
\* the executors that a step takes out of the pool
C26_Removed == workers \ workers'

\* C26: idle eviction removes an executor only if it is idle at the moment
\* its timer fires and the pool has more than minWorkers executors, so it
\* never brings the pool below minWorkers and never removes a busy executor;
\* and an executor that is assigned a task has no live idle timer left, so
\* the timer it had before the assignment cannot evict it.
C26_IdleEvictionIsSafe ==
    /\ [][IdleTimeout =>
            /\ \A w \in C26_Removed :
                  ~busy[w] /\ w \notin busyWorkers /\ currentTask[w] = NoTask
            /\ C26_Removed # {} => Cardinality(workers) > minWorkers
            /\ C26_Removed # {} => Cardinality(workers') >= minWorkers]_vars
    /\ [](\A w \in workers : busy[w] => ~idleTimer[w])

\* an idle executor has been evicted by its timer
C26_Evicted ==
    /\ \E w \in WorkerIds : w \notin workers /\ thread[w] = "running" /\ w < nextWorkerId
    /\ Cardinality(workers) = minWorkers

\* ---- C27 ----------------------------------------------------------------
\* the sizes of the entries of an index, added up
RECURSIVE C27_SizeOfEntries(_)
C27_SizeOfEntries(idx) ==
    IF idx = <<>> THEN 0 ELSE Head(idx).size + C27_SizeOfEntries(Tail(idx))

\* C27: after the start-up of the cache, every key of the in-memory index
\* refers to a backing file that exists in the data directory (the entries
\* of the reloaded index whose file is missing have been dropped), and the
\* running size total equals the sum of the sizes of the indexed entries.
C27_StartupReconciles ==
    [][CacheRestart =>
         /\ \A i \in 1..Len(cacheIndex') : files'[cacheIndex'[i].cacheKey].exists
         /\ currentCacheSize' = C27_SizeOfEntries(cacheIndex')]_vars

\* ---- C29 ----------------------------------------------------------------
\* the index, the backing files and the size total
C29_Outcome(K) == <<K.cacheIndex, K.files, K.currentCacheSize>>

\* both messages have been handled to the end
C29_BothHandled == Len(inflight.handlers) = 2 /\ Waiting(CurCache) = {}

\* C29: cache mutations are atomic with respect to one another: when two
\* cache messages for the same key are handled by one cache executor with
\* their await points interleaved, the resulting index, backing files and
\* size total are those of handling the two messages one after the other in
\* some order.
C29_OverlapIsSerial ==
    C29_BothHandled
    => LET m1 == inflight.handlers[1].msg
           m2 == inflight.handlers[2].msg
           B == inflight.base
       IN \/ C29_Outcome(CurCache) = C29_Outcome(handleMessage(handleMessage(B, m1), m2))
          \/ C29_Outcome(CurCache) = C29_Outcome(handleMessage(handleMessage(B, m2), m1))

\* ---- C30 ----------------------------------------------------------------
\* C30: when cache-optimize completes, no entry whose age exceeds its ttl
\* remains in the index, and the reported total size is at most the
\* high-water mark of 80% of maxCacheSize: if usage was still above the mark
\* after purging and compressing, eviction has brought it down.
C30_OptimizeLeavesRoom ==
    [][(lastReply'.op = "optimize" /\ CacheOptimize) =>
          /\ \A i \in 1..Len(cacheIndex') :
                ~(now' - cacheIndex'[i].timestamp > cacheIndex'[i].ttl)
          /\ 10 * currentCacheSize' <= 8 * maxCacheSize]_vars

\* ---- C31 ----------------------------------------------------------------
\* C31: every data chunk that the source reader or a stage of the pipeline
\* (filter, sort, aggregate) has pushed holds at most chunkSize rows.
C31_ChunksWithinChunkSize ==
    \A k \in DOMAIN stream.buffers :
        \A i \in 1..Len(stream.buffers[k]) :
            stream.buffers[k][i].type = "data" =>
                Len(stream.buffers[k][i].chunk) <= chunkSize

\* ---- C32 ----------------------------------------------------------------
\* C32: the pipeline that processLargeFile builds for a job has one stage
\* per operation descriptor of the job, in the order of the list: no
\* descriptor is skipped.
C32_OneStagePerOperation == stream # NoStream => stream.stages = procIn.operations

\* ---- C33 ----------------------------------------------------------------
\* C33: every progress value that a StreamProcessor reports (the progress
\* events of its readers and getStats().progress) lies between 0 and 100,
\* for every sequence of jobs on the same instance and for both readers.
C33_ProgressIsPercent ==
    /\ stream.progress \in 0..100
    /\ getStatsProgress(stream) \in 0..100

\* ---- C34 ----------------------------------------------------------------
\* C34: in every state of the pool availableWorkers and busyWorkers are
\* disjoint, together they are exactly workers, and an executor is in
\* busyWorkers if and only if its busy flag is set and it has a current task.
C34_Available == {availableWorkers[i] : i \in 1..Len(availableWorkers)}

C34_RegistryPartition ==
    /\ C34_Available \cap busyWorkers = {}
    /\ C34_Available \cup busyWorkers = workers
    /\ \A w \in workers : w \in busyWorkers <=> (busy[w] /\ currentTask[w] # NoTask)

\* a registry that has seen every operation: one executor is busy, another
\* is available, and an executor created earlier has been removed
C34_BusyIdleAndRemoved ==
    /\ busyWorkers # {}
    /\ C34_Available # {}
    /\ \E w \in WorkerIds : w < nextWorkerId /\ w \notin workers

\* ---- C35 ----------------------------------------------------------------
\* C35: the promise of a task is settled at most once (resolve and reject
\* are called at most once between them), and a task that has left the
\* queue is not discarded unsettled: while its promise is pending it is in
\* the queue, held by an assignTask pass, or the current task of an executor.
C35_Held(t) ==
    \/ \E i \in 1..Len(taskQueue) : taskQueue[i] = t
    \/ \E i \in 1..Len(pending) : pending[i].t = t
    \/ \E w \in WorkerIds : currentTask[w] = t

C35_SettledOnceNeverDropped ==
    \A t \in TaskIds :
        /\ settles[t] <= 1
        /\ (t < nextTask /\ tstate[t] = "pending") => C35_Held(t)

\* ---- C36 ----------------------------------------------------------------
\* C36: whenever no cache operation is in progress, the running total
\* currentCacheSize equals the sum of the sizes of the entries of the index,
\* after any sequence of set (of a new or an existing key), get, delete,
\* clear, cleanup, optimize and eviction, also when backing files are missing.
C36_TotalIsSumOfEntries == currentCacheSize = C27_SizeOfEntries(cacheIndex)

\* ---- C37 ----------------------------------------------------------------
\* C37: a cache-set that is handled while initializeCache is still running
\* and reports success is not undone by it: once initialisation and the
\* handler have finished, the entry is in the index and the running total
\* covers the sizes of the indexed entries.
C37_SetSurvivesInit ==
    (/\ inflight.init = "done"
     /\ Len(inflight.handlers) = 1
     /\ inflight.handlers[1].msg.op = "set"
     /\ inflight.handlers[1].pc = "done"
     /\ lastReply.op = "set" /\ lastReply.type = "result")
    => /\ IndexHas(cacheIndex, generateCacheKey(inflight.handlers[1].msg.key))
       /\ currentCacheSize >= C27_SizeOfEntries(cacheIndex)

\* ---- C38 ----------------------------------------------------------------
\* C38: every executor that the pool has removed from its registry has been
\* terminated: no executor that is absent from workers has a thread that is
\* still running.
C38_RemovedIsTerminated ==
    \A w \in WorkerIds : (w < nextWorkerId /\ w \notin workers) => thread[w] # "running"

\* ---- C39 ----------------------------------------------------------------
\* C39: compareForSort is a consistent ordering over null, numeric,
\* date-like and plain text values: it is antisymmetric, sign(cmp(a,b)) =
\* -sign(cmp(b,a)), and transitive, cmp(a,b) <= 0 and cmp(b,c) <= 0 imply
\* cmp(a,c) <= 0.
C39_ConsistentOrdering ==
    procOut.op = "compare"
    => /\ procOut.rows.ab = -procOut.rows.ba
       /\ (procOut.rows.ab <= 0 /\ procOut.rows.bc <= 0) => procOut.rows.ac <= 0

\* ---- C40 ----------------------------------------------------------------
\* the cache after the step
C40_After ==
    [cacheIndex |-> cacheIndex', currentCacheSize |-> currentCacheSize',
     files |-> files', savedIndex |-> savedIndex', now |-> now',
     lastReply |-> lastReply', inflight |-> inflight']

\* C40: cache-optimize and cache-compress preserve the stored values: for
\* every entry that was stored uncompressed, is not expired and is still in
\* the index afterwards, a cache-get after the maintenance returns what a
\* cache-get before it returned, and the compressed flag and the size of
\* the index entry are those of the file as it is now.
C40_MaintenancePreservesValues ==
    [][(lastReply'.op \in {"optimize", "compress"} /\ (CacheOptimize \/ CacheCompress)) =>
         \A key \in Keys :
            LET c == generateCacheKey(key) IN
            (/\ IndexHas(cacheIndex, c)
             /\ ~IndexGet(cacheIndex, c).compressed
             /\ ~Expired(CurCache, IndexGet(cacheIndex, c))
             /\ IndexHas(cacheIndex', c))
            => /\ LET before == getCacheData(CurCache, key).lastReply
                      after == getCacheData(C40_After, key).lastReply
                  IN /\ after.type = before.type
                     /\ after.found = before.found
                     /\ after.data = before.data
               /\ files'[c].exists
                  => /\ IndexGet(cacheIndex', c).compressed = files'[c].gz
                     /\ IndexGet(cacheIndex', c).size = files'[c].size]_vars

\* a cache-get has returned the value of an entry that maintenance has
\* rewritten: every entry of this scenario was stored uncompressed
C40_ReadRewritten ==
    /\ lastReply.op = "get" /\ lastReply.found
    /\ \E i \in 1..Len(cacheIndex) :
          /\ cacheIndex[i].key = lastReply.key
          /\ cacheIndex[i].compressed
          /\ files[cacheIndex[i].cacheKey].gz

====
